---- MODULE Spec2Model ----
(***************************************************************************)
(* Launch-preparation pipeline of the shard launcher                       *)
(* (src/launcher/src/minecraft.rs): native extraction, checksum-gated      *)
(* downloads, version-chain resolution and merge, rule evaluation.         *)
(*                                                                         *)
(* Text that the code inspects character by character (archive entry       *)
(* names, maven coordinates, arch markers, hex digests) is a tuple of      *)
(* one-character strings; text the code only compares or copies is a       *)
(* plain string.  An Option is None or Some(v).                            *)
(***************************************************************************)
EXTENDS Integers, Sequences, FiniteSets, TLC

None == <<>>

Some(v) == <<v>>

\* Option::unwrap
Get(o) == o[1]

\* ------------------------------------------------------------------------
\* Bounds of the model
\* ------------------------------------------------------------------------
MaxNameLen == 4
MaxEntries == 2

\* longest JVM argument list of a descriptor or of a profile
MaxArgs == 2

\* most calls of resolve_version_id in a row
MaxCalls == 2

\* most native archives among a version's libraries
MaxNatives == 2

\* longest rule list
MaxRules == 2

\* cap on the calls of load_version_json in one resolve_version; the code
\* needs no cap, the model has one so that a resolver that fails to stop
\* stays finite
MaxLoads == 6

\* longest argument template handed to substitute_vars, in tokens
MaxTemplateLen == 2

\* ------------------------------------------------------------------------
\* Generic helpers
\* ------------------------------------------------------------------------
Range(s) == {s[i] : i \in 1..Len(s)}

Front(s) == SubSeq(s, 1, Len(s) - 1)

Last(s) == s[Len(s)]

\* all tuples over S of length 0..n
RECURSIVE TuplesUpTo(_, _)
TuplesUpTo(S, n) ==
    IF n = 0 THEN {<<>>}
    ELSE LET shorter == TuplesUpTo(S, n - 1)
         IN  shorter \cup {Append(t, x) : t \in {u \in shorter : Len(u) = n - 1}, x \in S}

\* str::starts_with / Path::starts_with on tuples
StartsWith(s, prefix) ==
    /\ Len(prefix) <= Len(s)
    /\ SubSeq(s, 1, Len(prefix)) = prefix

\* str::split(sep): the segments between separators, empty ones included
RECURSIVE SplitAcc(_, _, _, _)
SplitAcc(s, sep, i, cur) ==
    IF i > Len(s) THEN <<cur>>
    ELSE IF s[i] = sep THEN <<cur>> \o SplitAcc(s, sep, i + 1, <<>>)
    ELSE SplitAcc(s, sep, i + 1, Append(cur, s[i]))

Split(s, sep) == SplitAcc(s, sep, 1, <<>>)

\* ------------------------------------------------------------------------
\* Paths (std::path on a unix build, no symbolic links: the natives
\* directory is deleted and recreated before any archive is extracted)
\* ------------------------------------------------------------------------
ParentDir == <<".", ".">>

CurDir == <<".">>

\* Path::components of a relative or absolute name: whether it starts at the
\* root, and its Normal / ParentDir components (empty segments and "." are
\* dropped by the iterator)
HasRoot(name) == Len(name) > 0 /\ name[1] = "/"

Components(name) ==
    SelectSeq(Split(name, "/"), LAMBDA seg : seg # <<>> /\ seg # CurDir)

\* the instance's natives directory, as absolute components
NativesDir == << <<"i">>, <<"n">> >>

\* what the kernel resolves an absolute component list to: ".." steps to the
\* parent, and the parent of the root is the root
RECURSIVE ResolveFrom(_, _)
ResolveFrom(cur, comps) ==
    IF comps = <<>> THEN cur
    ELSE IF comps[1] = ParentDir
         THEN ResolveFrom(IF cur = <<>> THEN cur ELSE Front(cur), Tail(comps))
         ELSE ResolveFrom(Append(cur, comps[1]), Tail(comps))

Canonicalize(comps) == ResolveFrom(<<>>, comps)

\* Path::join: an absolute right-hand side replaces the left-hand side
Join(base, name) ==
    IF HasRoot(name) THEN Components(name) ELSE base \o Components(name)

\* Path::parent: the path without its final component (None for the root)
PathParent(comps) == IF comps = <<>> THEN None ELSE Some(Front(comps))

\* Path::file_name: the final component unless it is ".."
FileName(comps) ==
    IF comps = <<>> \/ Last(comps) = ParentDir THEN None ELSE Some(Last(comps))

\* ------------------------------------------------------------------------
\* State
\* ------------------------------------------------------------------------
VARIABLES
    mode,         \* which part of the pipeline this behaviour exercises
    \* extract_natives
    exExclude,    \* the library's extract.exclude list, or None
    exCount,      \* archive entries visited so far by the running call
    exName,       \* name of the entry visited last, or None
    exDirs,       \* directories that exist (resolved absolute paths)
    exFiles,      \* regular files that exist (resolved absolute paths)
    exWritten,    \* resolved paths of the files the calls created or wrote
    exEscaping,   \* the running call's archive has shown a file entry whose
                  \* destination resolves outside the natives directory
    exResult,     \* "running", "ok", or the kind of error returned
    \* download_with_sha1
    dlRuns,       \* the pipeline runs (threads) that exist
    disk,         \* cache path -> content of the file there, or NoFile
    dlPc,         \* per run: position inside download_with_sha1, or "idle"
    dlPath,       \* per run: the target path of the call
    dlExpected,   \* per run: expected_sha1 (None or a hex digest)
    dlBody,       \* per run: the response body being received, or None
    dlCopied,     \* per run: the body the call wrote completely into its
                  \* temporary file, or None
    dlFetched,    \* per run: the call has issued its network request
    dlBefore,     \* per run: the disk as it was when the call started
    dlResult,     \* per run: "none" while running, "ok", or the error kind
    dlHandle,     \* per run: None, or Some(where the file it holds open is now)
    dlAtReturn,   \* per run: None, or Some(the target file when the call returned)
    dlRewrote,    \* a file that had the expected checksum was written or replaced
    \* merge_versions on its own
    mgParent,     \* the parent descriptor
    mgChild,      \* the child descriptor
    mgMerged,     \* None, or Some(merge_versions(parent, child))
    \* resolve_version
    versionFiles, \* version id -> None or Some(descriptor cached in versions/)
    manifest,     \* version id -> None or Some(descriptor the manifest serves)
    rvPc,         \* "load", "visit", "fold" or "done"
    rvNext,       \* the id the next load_version_json is called with
    rvCurrent,    \* `current`
    rvSeen,       \* `seen`
    rvChain,      \* `chain`
    rvLoads,      \* calls of load_version_json so far
    rvResult,     \* "none", "ok", "err_cycle" or "err_not_found"
    rvCycleId,    \* the id the cycle error names, or None
    rvMerged,     \* None, or Some(merged descriptor)
    \* rules_allow
    ruRules,      \* the rule list of a library or an argument
    ruCtx,        \* the RuleContext
    ruMatched,    \* None, or Some(what Rule::matches returned for each rule)
    ruResult,     \* None, or Some(rules_allow(rules, ctx))
    \* the natives directory of one instance, used by every launch of its profile
    nvCount,      \* how many native archives the version's libraries carry
    nvDir,        \* None when the directory is absent, else Some(its files)
    nvPc,         \* per run: where prepare is
    nvIdx,        \* per run: how many native archives it has extracted
    nvExtracted,  \* per run: the files it has extracted
    nvErased,     \* per run: files of its own that another run's clearing removed
    nvCleared,    \* the files the clearings have removed so far
    nvAtReturn,   \* per run: None, or Some(the directory's files when it returned)
    nvResult,     \* per run: "none", "plan" or an error
    \* loader provisioning (resolve_version_id)
    pvFiles,      \* the version ids that have a descriptor file under versions/
    pvCache,      \* the installer jars in the download cache
    pvCalls,      \* the last two calls of resolve_version_id, in order
    pvCount,      \* how many calls were made
    \* prepare: from the merged descriptor to the LaunchPlan
    laVersion,    \* None, or Some(the merged descriptor)
    laProfile,    \* None, or Some(the profile's runtime settings)
    laCtx,        \* None, or Some(the RuleContext of the build)
    laRendered,   \* None, or Some(what build_args returned as JVM arguments)
    laUnstripped, \* None, or Some(the JVM arguments handed to strip_classpath_args)
    laResult,     \* None, or Some(what prepare returned)
    \* load_version_json on its own
    lvFiles,      \* version id -> None or Some(text of versions/<id>/<id>.json)
    lvRemote,     \* version id -> None or Some(text the manifest entry's url serves)
    lvCount,      \* how many calls were made
    lvLast,       \* None, or Some(the last call: its id, result, whether it fetched)
    \* substitute_vars on its own
    svTemplate,   \* the argument template, as tokens
    svMap,        \* the variable map: name -> value, as tokens
    svOrder,      \* None, or Some(the order the iteration visited the map's keys in)
    svOut,        \* None, or Some(what substitute_vars returned)
    \* build_args on a merged descriptor
    baParent,     \* None, or Some(the parent descriptor)
    baChild,      \* None, or Some(the child descriptor)
    baVersion,    \* None, or Some(merge_versions(parent, child))
    baOut,        \* None, or Some(what build_args returned)
    \* prepare: client jars, libraries and the classpath
    lbLoader,     \* None, or Some(the loader_type of the profile)
    lbChain,      \* the resolved chain, most specific first
    lbLibraries,  \* the libraries of the merged descriptor
    lbPc,         \* "idle", "clients", "libraries" or "done"
    lbIdx,        \* chain entries, then libraries, visited so far
    lbClientJars, \* `client_jars`
    lbClasspath,  \* `classpath`, before it is joined
    lbCalls,      \* the calls of download_with_sha1 made so far
    lbExtracted,  \* the archives handed to extract_natives so far
    lbResult,     \* "none", "plan" or the error
    \* launch_profile_cmd and its worker
    stPc,         \* per launch request: where the command or its worker is
    stEvents,     \* the launch-status events emitted so far, each with its request
    stError,      \* per launch request: None, or Some(the Err run_launch returned)
    stExit,       \* per launch request: None, or Some(how child.wait() ended)
    \* a failed pipeline run and its retry
    rtRemote,     \* cache path -> None, or Some(the body its url serves)
    rtDisk,       \* cache path -> content of the file there, or NoFile
    rtRun,        \* 1 for the first run of the pipeline, 2 for the retry
    rtIdx,        \* the artifacts the current run has got through
    rtVerified,   \* the paths where the first run left a file it had verified
    rtFetches,    \* the network requests made: which run, for which path
    rtResult      \* per run: "none", "ok" or "failed"

exVars == <<exExclude, exCount, exName, exDirs, exFiles, exWritten, exEscaping, exResult>>

dlVars == <<dlRuns, disk, dlPc, dlPath, dlExpected, dlBody, dlCopied, dlFetched, dlBefore, dlResult,
           dlHandle, dlAtReturn, dlRewrote>>

mgVars == <<mgParent, mgChild, mgMerged>>

rvVars == <<versionFiles, manifest, rvPc, rvNext, rvCurrent, rvSeen, rvChain, rvLoads, rvResult, rvCycleId, rvMerged>>

ruVars == <<ruRules, ruCtx, ruMatched, ruResult>>

nvVars == <<nvCount, nvDir, nvPc, nvIdx, nvExtracted, nvErased, nvCleared, nvAtReturn, nvResult>>

pvVars == <<pvFiles, pvCache, pvCalls, pvCount>>

laVars == <<laVersion, laProfile, laCtx, laRendered, laUnstripped, laResult>>

lvVars == <<lvFiles, lvRemote, lvCount, lvLast>>

svVars == <<svTemplate, svMap, svOrder, svOut>>

baVars == <<baParent, baChild, baVersion, baOut>>

lbVars == <<lbLoader, lbChain, lbLibraries, lbPc, lbIdx, lbClientJars, lbClasspath, lbCalls, lbExtracted, lbResult>>

stVars == <<stPc, stEvents, stError, stExit>>

rtVars == <<rtRemote, rtDisk, rtRun, rtIdx, rtVerified, rtFetches, rtResult>>

vars == <<mode, exVars, dlVars, mgVars, rvVars, ruVars, nvVars, pvVars, laVars, lvVars, svVars, baVars, lbVars, stVars, rtVars>>

\* ------------------------------------------------------------------------
\* extract_natives
\* ------------------------------------------------------------------------
NameChars == {"a", ".", "/"}

\* entry names a zip archive may carry
EntryNames == TuplesUpTo(NameChars, MaxNameLen)

\* the exclude lists of a library: absent, or prefixes such as "a/" (META-INF/)
ExcludeLists ==
    {None, Some(<<>>), Some(<< <<"a", "/">> >>), Some(<< <<".">>, <<"a", "a">> >>)}

\* ZipFile::is_dir: the name ends with a slash
IsDirEntry(name) == Len(name) > 0 /\ Last(name) = "/"

\* ZipFile::enclosed_name (zip crate): None for a rooted name and for a name
\* whose ".." components climb above its own start, else the name unchanged
RECURSIVE DepthNeverNegative(_, _)
DepthNeverNegative(comps, depth) ==
    IF comps = <<>> THEN TRUE
    ELSE IF comps[1] = ParentDir
         THEN depth > 0 /\ DepthNeverNegative(Tail(comps), depth - 1)
         ELSE DepthNeverNegative(Tail(comps), depth + 1)

EnclosedName(name) ==
    IF HasRoot(name) \/ ~DepthNeverNegative(Components(name), 0) THEN None
    ELSE Some(name)

\* excludes.iter().any(|prefix| entry_name.starts_with(prefix))
Excluded(name, exclude) ==
    /\ exclude # None
    /\ \E i \in 1..Len(Get(exclude)) : StartsWith(name, Get(exclude)[i])

\* fs::create_dir_all on an absolute component list: every Normal component
\* is created if missing, and the call fails when one of them is a file
RECURSIVE MkdirWalk(_, _, _, _)
MkdirWalk(dirs, files, cur, comps) ==
    IF comps = <<>> THEN [ok |-> TRUE, dirs |-> dirs]
    ELSE IF comps[1] = ParentDir
         THEN MkdirWalk(dirs, files, IF cur = <<>> THEN cur ELSE Front(cur), Tail(comps))
         ELSE LET nxt == Append(cur, comps[1])
              IN  IF nxt \in files THEN [ok |-> FALSE, dirs |-> dirs]
                  ELSE MkdirWalk(dirs \cup {nxt}, files, nxt, Tail(comps))

CreateDirAll(dirs, files, comps) == MkdirWalk(dirs, files, <<>>, comps)

\* fs::File::create followed by io::copy: the file at the resolved path is
\* created or truncated and written; fails on a directory or a missing parent
FileCreate(dirs, files, comps) ==
    LET target == Canonicalize(comps)
    IN  IF target \in dirs \/ target = <<>> \/ Front(target) \notin dirs
        THEN [ok |-> FALSE, files |-> files, wrote |-> None]
        ELSE [ok |-> TRUE, files |-> files \cup {target}, wrote |-> Some(target)]

EntryOutcome(kind, dirs, files, wrote) ==
    [kind |-> kind, dirs |-> dirs, files |-> files, wrote |-> wrote]

\* an extraction that joins the raw entry name onto the destination and
\* writes it with no containment check at all
ExtractEntryUnchecked(name, exclude, dirs, files) ==
    IF IsDirEntry(name) \/ Excluded(name, exclude)
    THEN EntryOutcome("skip", dirs, files, None)
    ELSE LET out_path == Join(NativesDir, name)
             parent   == PathParent(out_path)
             made     == IF parent = None THEN [ok |-> TRUE, dirs |-> dirs]
                         ELSE CreateDirAll(dirs, files, Get(parent))
             created  == FileCreate(made.dirs, files, out_path)
         IN  IF ~made.ok \/ ~created.ok
             THEN EntryOutcome("err_io", made.dirs, files, None)
             ELSE EntryOutcome("written", made.dirs, created.files, created.wrote)

\* one iteration of the loop over the archive's entries
ExtractEntry(name, exclude, dirs, files) ==
    LET enclosed == EnclosedName(name)
    IN  IF enclosed = None \/ IsDirEntry(name) \/ Excluded(name, exclude)
        THEN EntryOutcome("skip", dirs, files, None)
        ELSE LET out_path       == Join(NativesDir, Get(enclosed))
                 canonical_dest == Canonicalize(NativesDir)
                 parent         == PathParent(out_path)
                 made           == IF parent = None THEN [ok |-> TRUE, dirs |-> dirs]
                                   ELSE CreateDirAll(dirs, files, Get(parent))
                 file_name      == FileName(out_path)
                 canonical_out  ==
                     IF parent = None THEN out_path
                     ELSE Canonicalize(Get(parent))
                            \o (IF file_name = None THEN <<>> ELSE <<Get(file_name)>>)
                 created        == FileCreate(made.dirs, files, out_path)
             IN  IF ~made.ok
                 THEN EntryOutcome("err_io", made.dirs, files, None)
                 ELSE IF ~StartsWith(canonical_out, canonical_dest)
                 THEN EntryOutcome("err_zip_slip", made.dirs, files, None)
                 ELSE IF ~created.ok
                 THEN EntryOutcome("err_io", made.dirs, files, None)
                 ELSE EntryOutcome("written", made.dirs, created.files, created.wrote)

\* a file entry whose destination, once resolved, is not inside the natives
\* directory
EscapesDest(name) ==
    /\ ~IsDirEntry(name)
    /\ ~StartsWith(Canonicalize(Join(NativesDir, name)), NativesDir)

\* ------------------------------------------------------------------------
\* Files of the shared caches and their digests
\* ------------------------------------------------------------------------
NoFile == "nofile"

\* where an open file is once its name has been given to another file
Unlinked == [stem |-> "", ext |-> ""]

Runs == {"r1", "r2"}

\* file contents: the empty file and two artifacts
Contents == {"", "c1", "c2"}

\* sha1_file: the digest of a file's content as lower-case hex
\* (format!("{:x}", digest)); the three contents have three digests
Sha1Hex(content) ==
    CASE content = ""   -> <<"d", "a">>
      [] content = "c1" -> <<"a", "b">>
      [] content = "c2" -> <<"c", "d">>

\* u8::to_ascii_lowercase on the hex alphabet used here
ToAsciiLower(ch) ==
    CASE ch = "A" -> "a"
      [] ch = "B" -> "b"
      [] ch = "C" -> "c"
      [] ch = "D" -> "d"
      [] ch = "E" -> "e"
      [] ch = "F" -> "f"
      [] OTHER    -> ch

\* str::eq_ignore_ascii_case
EqIgnoreAsciiCase(a, b) ==
    /\ Len(a) = Len(b)
    /\ \A i \in 1..Len(a) : ToAsciiLower(a[i]) = ToAsciiLower(b[i])

\* checksums a manifest may state: the digests above in either case, and one
\* that no content has
ExpectedSums ==
    {<<"a", "b">>, <<"A", "B">>, <<"c", "d">>, <<"C", "d">>, <<"d", "a">>, <<"e", "f">>}

\* a cache path is a file stem and an extension; a download goes to a jar
DlTargets == {[stem |-> "lib", ext |-> "jar"]}

\* Path::with_extension
WithExtension(path, ext) == [path EXCEPT !.ext = ext]

\* a temporary path that is the target itself
TmpPathInPlace(path) == path

\* tmp_path = path.with_extension("tmp")
TmpPath(path) == WithExtension(path, "tmp")

DlPaths == DlTargets \cup {TmpPath(t) : t \in DlTargets}

\* no download is running and the caches are empty
DlIdle ==
    /\ dlRuns = {}
    /\ disk = [q \in DlPaths |-> NoFile]
    /\ dlPc = [r \in Runs |-> "idle"]
    /\ dlPath = [r \in Runs |-> None]
    /\ dlExpected = [r \in Runs |-> None]
    /\ dlBody = [r \in Runs |-> None]
    /\ dlCopied = [r \in Runs |-> None]
    /\ dlFetched = [r \in Runs |-> FALSE]
    /\ dlBefore = [r \in Runs |-> None]
    /\ dlResult = [r \in Runs |-> "none"]
    /\ dlHandle = [r \in Runs |-> None]
    /\ dlAtReturn = [r \in Runs |-> None]
    /\ dlRewrote = FALSE

\* ------------------------------------------------------------------------
\* Version descriptors
\* ------------------------------------------------------------------------
VersionIds == {"a", "b", "c"}

\* no launch is being prepared
LaIdle ==
    /\ laVersion = None
    /\ laProfile = None
    /\ laCtx = None
    /\ laRendered = None
    /\ laUnstripped = None
    /\ laResult = None

\* the ids load_version_json is called with on its own
LvIds == {"a", "b"}

\* load_version_json has not been called
LvIdle ==
    /\ lvFiles = [k \in LvIds |-> None]
    /\ lvRemote = [k \in LvIds |-> None]
    /\ lvCount = 0
    /\ lvLast = None

\* substitute_vars has not been called
SvIdle == svTemplate = <<>> /\ svMap = <<>> /\ svOrder = None /\ svOut = None

\* build_args has nothing to render
BaIdle == baParent = None /\ baChild = None /\ baVersion = None /\ baOut = None

\* no classpath is being built
LbIdle ==
    /\ lbLoader = None
    /\ lbChain = <<>>
    /\ lbLibraries = <<>>
    /\ lbPc = "idle"
    /\ lbIdx = 0
    /\ lbClientJars = <<>>
    /\ lbClasspath = <<>>
    /\ lbCalls = {}
    /\ lbExtracted = {}
    /\ lbResult = "none"

\* no launch was requested
StIdle ==
    /\ stPc = [r \in Runs |-> "idle"]
    /\ stEvents = <<>>
    /\ stError = [r \in Runs |-> None]
    /\ stExit = [r \in Runs |-> None]

\* no pipeline run is under way
RtIdle ==
    /\ rtRemote = <<>>
    /\ rtDisk = <<>>
    /\ rtRun = 0
    /\ rtIdx = 0
    /\ rtVerified = {}
    /\ rtFetches = {}
    /\ rtResult = <<>>

\* no loader has been provisioned
PvIdle == pvFiles = {} /\ pvCache = {} /\ pvCalls = <<>> /\ pvCount = 0

\* no launch is using the natives directory
NvIdle ==
    /\ nvCount = 0
    /\ nvDir = None
    /\ nvPc = [r \in Runs |-> "idle"]
    /\ nvIdx = [r \in Runs |-> 0]
    /\ nvExtracted = [r \in Runs |-> {}]
    /\ nvErased = [r \in Runs |-> {}]
    /\ nvCleared = {}
    /\ nvAtReturn = [r \in Runs |-> None]
    /\ nvResult = [r \in Runs |-> "none"]

\* no rule list is being evaluated
RuIdle == ruRules = <<>> /\ ruCtx = None /\ ruMatched = None /\ ruResult = None

\* nothing is being merged or resolved
MgIdle == mgParent = None /\ mgChild = None /\ mgMerged = None

RvIdle ==
    /\ versionFiles = [k \in VersionIds |-> None]
    /\ manifest = [k \in VersionIds |-> None]
    /\ rvPc = "done"
    /\ rvNext = None
    /\ rvCurrent = None
    /\ rvSeen = <<>>
    /\ rvChain = <<>>
    /\ rvLoads = 0
    /\ rvResult = "none"
    /\ rvCycleId = None
    /\ rvMerged = None

ExFresh ==
    /\ exCount = 0
    /\ exName = None
    /\ exDirs = {<<>>, SubSeq(NativesDir, 1, 1), NativesDir}
    /\ exFiles = {}
    /\ exWritten = {}
    /\ exEscaping = FALSE
    /\ exResult = "running"

\* no archive is being extracted
ExIdle == exExclude = None /\ ExFresh

ExInit == exExclude \in ExcludeLists /\ ExFresh

\* File::open / ZipArchive::new fails: not a readable zip
ExtractOpenFail ==
    /\ mode = "extract"
    /\ exResult = "running"
    /\ exCount = 0
    /\ exResult' = "err_open"
    /\ UNCHANGED <<mode, rtVars, stVars, lbVars, baVars, svVars, lvVars, laVars, pvVars, nvVars, dlVars, mgVars, rvVars, ruVars, exExclude, exCount, exName, exDirs, exFiles, exWritten, exEscaping>>

\* the loop body for the next entry of the archive
ExtractNext ==
    /\ mode = "extract"
    /\ exResult = "running"
    /\ exCount < MaxEntries
    /\ \E name \in EntryNames :
         LET out == ExtractEntry(name, exExclude, exDirs, exFiles)
         IN  /\ exName' = Some(name)
             /\ exCount' = exCount + 1
             /\ exDirs' = out.dirs
             /\ exFiles' = out.files
             /\ exWritten' = IF out.wrote = None THEN exWritten
                             ELSE exWritten \cup {Get(out.wrote)}
             /\ exEscaping' = (exEscaping \/ EscapesDest(name))
             /\ exResult' = IF out.kind \in {"skip", "written"} THEN "running"
                            ELSE out.kind
    /\ UNCHANGED <<mode, rtVars, stVars, lbVars, baVars, svVars, lvVars, laVars, pvVars, nvVars, dlVars, mgVars, rvVars, ruVars, exExclude>>

\* the archive has no further entry: Ok(())
ExtractFinish ==
    /\ mode = "extract"
    /\ exResult = "running"
    /\ exResult' = "ok"
    /\ UNCHANGED <<mode, rtVars, stVars, lbVars, baVars, svVars, lvVars, laVars, pvVars, nvVars, dlVars, mgVars, rvVars, ruVars, exExclude, exCount, exName, exDirs, exFiles, exWritten, exEscaping>>

ExtractInit == mode = "extract" /\ RtIdle /\ StIdle /\ LbIdle /\ BaIdle /\ SvIdle /\ LvIdle /\ LaIdle /\ PvIdle /\ NvIdle /\ ExInit /\ DlIdle /\ MgIdle /\ RvIdle /\ RuIdle

ExtractStep == ExtractOpenFail \/ ExtractNext \/ ExtractFinish

SpecExtract == ExtractInit /\ [][ExtractStep]_vars

\* C1: whatever names the archives carry and whatever the exclude list is,
\* every file extract_natives has created or written lies inside the natives
\* directory, while the call runs and after it ends in success or in error.
ExtractStaysInside ==
    /\ \A p \in exWritten : StartsWith(p, NativesDir) /\ p # NativesDir
    /\ \A p \in exFiles : StartsWith(p, NativesDir)

\* an archive with an escaping entry has been processed next to one that
\* was written
ExtractStaysInsideWitness ==
    /\ exEscaping
    /\ exWritten # {}
    /\ exResult \in {"ok", "err_io"}

\* C2: an archive holding a file entry whose destination resolves outside
\* the natives directory never makes extract_natives return success.
EscapingEntryIsFatal == exResult = "ok" => ~exEscaping

\* ------------------------------------------------------------------------
\* download_with_sha1
\* ------------------------------------------------------------------------
\* a comparison of digests that is sensitive to the case of the hex digits
CacheHitCaseSensitive(file, expected) ==
    /\ file # NoFile
    /\ IF expected # None THEN Sha1Hex(file) = Get(expected)
       ELSE file # ""

\* a test that never accepts the existing file
CacheHitNever(file, expected) == FALSE

\* a test that accepts any existing file when no checksum is known
CacheHitAnyFile(file, expected) ==
    /\ file # NoFile
    /\ expected # None => EqIgnoreAsciiCase(Sha1Hex(file), Get(expected))

\* lines 826-835: the existing file is accepted without a fetch
CacheHit(file, expected) ==
    /\ file # NoFile
    /\ IF expected # None THEN EqIgnoreAsciiCase(Sha1Hex(file), Get(expected))
       ELSE file # ""

\* a download that is moved into place whatever its digest
DownloadVerifiedAlways(file, expected) == TRUE

\* lines 855-860: the downloaded temporary file passes the checksum gate
DownloadVerified(file, expected) ==
    expected = None \/ EqIgnoreAsciiCase(Sha1Hex(file), Get(expected))

\* the target path of run r's call
DlTarget(r) == Get(dlPath[r])

\* the modes in which download_with_sha1 runs: one pipeline run, or two runs
\* that share the caches
DlModes == {"download", "shared"}

\* the checksummed artifact both runs of the shared mode fetch
SharedSum == <<"a", "b">>

\* the call returns; `out` is dropped, and `file` is at the target then
DlReturn(r, result, file) ==
    /\ dlPc' = [dlPc EXCEPT ![r] = "idle"]
    /\ dlResult' = [dlResult EXCEPT ![r] = result]
    /\ dlHandle' = [dlHandle EXCEPT ![r] = None]
    /\ dlAtReturn' = [dlAtReturn EXCEPT ![r] = Some(file)]

\* the file at run r's target has the checksum run r's call expects
DlTargetIsGood(r) ==
    /\ dlExpected[r] # None
    /\ disk[DlTarget(r)] # NoFile
    /\ EqIgnoreAsciiCase(Sha1Hex(disk[DlTarget(r)]), Get(dlExpected[r]))

\* a caller (ensure_client_jar, ensure_assets, ensure_libraries, ...) calls
\* download_with_sha1(url, path, expected_sha1)
DlCall(r) ==
    /\ mode \in DlModes
    /\ r \in dlRuns
    /\ dlPc[r] = "idle"
    /\ \E path \in DlTargets,
          expected \in IF mode = "shared" THEN {Some(SharedSum)}
                       ELSE {None} \cup {Some(e) : e \in ExpectedSums} :
         /\ dlPath' = [dlPath EXCEPT ![r] = Some(path)]
         /\ dlExpected' = [dlExpected EXCEPT ![r] = expected]
    /\ dlPc' = [dlPc EXCEPT ![r] = "check"]
    /\ dlBody' = [dlBody EXCEPT ![r] = None]
    /\ dlCopied' = [dlCopied EXCEPT ![r] = None]
    /\ dlFetched' = [dlFetched EXCEPT ![r] = FALSE]
    /\ dlBefore' = [dlBefore EXCEPT ![r] = Some(disk)]
    /\ dlResult' = [dlResult EXCEPT ![r] = "none"]
    /\ dlAtReturn' = [dlAtReturn EXCEPT ![r] = None]
    /\ UNCHANGED <<mode, rtVars, stVars, lbVars, baVars, svVars, lvVars, laVars, pvVars, nvVars, exVars, mgVars, rvVars, ruVars, dlRuns, disk, dlHandle, dlRewrote>>

\* lines 826-840: return Ok(()) for an acceptable cached file, else go on to
\* the fetch (create_dir_all of the cache directory changes no file)
DlCheckCached(r) ==
    /\ mode \in DlModes
    /\ dlPc[r] = "check"
    /\ IF CacheHit(disk[DlTarget(r)], dlExpected[r])
       THEN DlReturn(r, "ok", disk[DlTarget(r)])
       ELSE /\ dlPc' = [dlPc EXCEPT ![r] = "send"]
            /\ UNCHANGED <<dlResult, dlHandle, dlAtReturn>>
    /\ UNCHANGED <<mode, rtVars, stVars, lbVars, baVars, svVars, lvVars, laVars, pvVars, nvVars, exVars, mgVars, rvVars, ruVars, dlRuns, disk, dlPath, dlExpected, dlBody, dlCopied, dlFetched, dlBefore, dlRewrote>>

\* lines 843-849: the GET request; the server answers with some body, or the
\* request or its status fails
DlSend(r) ==
    /\ mode \in DlModes
    /\ dlPc[r] = "send"
    /\ dlFetched' = [dlFetched EXCEPT ![r] = TRUE]
    /\ \/ /\ DlReturn(r, "err_network", disk[DlTarget(r)])
          /\ UNCHANGED dlBody
       \/ /\ \E body \in Contents : dlBody' = [dlBody EXCEPT ![r] = Some(body)]
          /\ dlPc' = [dlPc EXCEPT ![r] = "create"]
          /\ UNCHANGED <<dlResult, dlHandle, dlAtReturn>>
    /\ UNCHANGED <<mode, rtVars, stVars, lbVars, baVars, svVars, lvVars, laVars, pvVars, nvVars, exVars, mgVars, rvVars, ruVars, dlRuns, disk, dlPath, dlExpected, dlCopied, dlBefore, dlRewrote>>

\* lines 851-852: File::create(&tmp_path) creates the file or truncates the
\* one that is there, and holds it open
DlCreateTmp(r) ==
    /\ mode \in DlModes
    /\ dlPc[r] = "create"
    /\ disk' = [disk EXCEPT ![TmpPath(DlTarget(r))] = ""]
    /\ dlHandle' = [dlHandle EXCEPT ![r] = Some(TmpPath(DlTarget(r)))]
    /\ dlRewrote' = (dlRewrote \/ (TmpPath(DlTarget(r)) = DlTarget(r) /\ DlTargetIsGood(r)))
    /\ dlPc' = [dlPc EXCEPT ![r] = "copy"]
    /\ UNCHANGED <<mode, rtVars, stVars, lbVars, baVars, svVars, lvVars, laVars, pvVars, nvVars, exVars, mgVars, rvVars, ruVars, dlRuns, dlPath, dlExpected, dlBody, dlCopied, dlFetched, dlBefore, dlResult, dlAtReturn>>

\* line 853: io::copy writes the body through the open handle, wherever the
\* file it holds is by now, or the connection breaks before anything is
\* written
DlCopy(r) ==
    /\ mode \in DlModes
    /\ dlPc[r] = "copy"
    /\ \/ /\ LET held == Get(dlHandle[r])
             IN  /\ disk' = IF held = Unlinked THEN disk
                            ELSE [disk EXCEPT ![held] = Get(dlBody[r])]
                 /\ dlRewrote' = (dlRewrote \/ (held = DlTarget(r) /\ DlTargetIsGood(r)))
          /\ dlCopied' = [dlCopied EXCEPT ![r] = dlBody[r]]
          /\ dlPc' = [dlPc EXCEPT ![r] = "verify"]
          /\ UNCHANGED <<dlResult, dlHandle, dlAtReturn>>
       \/ /\ DlReturn(r, "err_network", disk[DlTarget(r)])
          /\ UNCHANGED <<disk, dlCopied, dlRewrote>>
    /\ UNCHANGED <<mode, rtVars, stVars, lbVars, baVars, svVars, lvVars, laVars, pvVars, nvVars, exVars, mgVars, rvVars, ruVars, dlRuns, dlPath, dlExpected, dlBody, dlFetched, dlBefore>>

\* lines 855-860: hash the temporary file as it is now and compare
DlVerify(r) ==
    /\ mode \in DlModes
    /\ dlPc[r] = "verify"
    /\ LET tmp == disk[TmpPath(DlTarget(r))]
       IN  IF dlExpected[r] # None /\ tmp = NoFile
           THEN DlReturn(r, "err_io", disk[DlTarget(r)])
           ELSE IF ~DownloadVerified(tmp, dlExpected[r])
           THEN DlReturn(r, "err_sha1", disk[DlTarget(r)])
           ELSE /\ dlPc' = [dlPc EXCEPT ![r] = "rename"]
                /\ UNCHANGED <<dlResult, dlHandle, dlAtReturn>>
    /\ UNCHANGED <<mode, rtVars, stVars, lbVars, baVars, svVars, lvVars, laVars, pvVars, nvVars, exVars, mgVars, rvVars, ruVars, dlRuns, disk, dlPath, dlExpected, dlBody, dlCopied, dlFetched, dlBefore, dlRewrote>>

\* where an open file is after `tmp` was renamed to `target`
HandleAfterRename(held, tmp, target) ==
    IF held = None THEN None
    ELSE IF Get(held) = tmp THEN Some(target)
    ELSE IF Get(held) = target THEN Some(Unlinked)
    ELSE held

\* lines 862-864: fs::rename(&tmp_path, path) replaces the target; files
\* other runs hold open move with their names
DlRename(r) ==
    /\ mode \in DlModes
    /\ dlPc[r] = "rename"
    /\ LET tmp == TmpPath(DlTarget(r))
           target == DlTarget(r)
       IN  IF disk[tmp] = NoFile
           THEN /\ DlReturn(r, "err_io", disk[target])
                /\ UNCHANGED <<disk, dlRewrote>>
           ELSE IF tmp = target
           THEN /\ DlReturn(r, "ok", disk[target])
                /\ UNCHANGED <<disk, dlRewrote>>
           ELSE /\ dlPc' = [dlPc EXCEPT ![r] = "idle"]
                /\ dlResult' = [dlResult EXCEPT ![r] = "ok"]
                /\ dlAtReturn' = [dlAtReturn EXCEPT ![r] = Some(disk[tmp])]
                /\ dlHandle' = [q \in Runs |->
                                  IF q = r THEN None
                                  ELSE HandleAfterRename(dlHandle[q], tmp, target)]
                /\ disk' = [disk EXCEPT ![target] = disk[tmp], ![tmp] = NoFile]
                /\ dlRewrote' = (dlRewrote \/ DlTargetIsGood(r))
    /\ UNCHANGED <<mode, rtVars, stVars, lbVars, baVars, svVars, lvVars, laVars, pvVars, nvVars, exVars, mgVars, rvVars, ruVars, dlRuns, dlPath, dlExpected, dlBody, dlCopied, dlFetched, dlBefore>>

DownloadStep ==
    \E r \in Runs :
        \/ DlCall(r)
        \/ DlCheckCached(r)
        \/ DlSend(r)
        \/ DlCreateTmp(r)
        \/ DlCopy(r)
        \/ DlVerify(r)
        \/ DlRename(r)

\* one pipeline run; the cache may hold anything from earlier runs,
\* including a temporary file an earlier failed download left behind
DownloadInit ==
    /\ mode = "download"
    /\ RtIdle
    /\ StIdle
    /\ LbIdle
    /\ BaIdle
    /\ SvIdle
    /\ LvIdle
    /\ LaIdle
    /\ PvIdle
    /\ NvIdle
    /\ ExIdle
    /\ MgIdle
    /\ RvIdle
    /\ RuIdle
    /\ dlRuns = {"r1"}
    /\ disk \in [DlPaths -> Contents \cup {NoFile}]
    /\ dlPc = [r \in Runs |-> "idle"]
    /\ dlPath = [r \in Runs |-> None]
    /\ dlExpected = [r \in Runs |-> None]
    /\ dlBody = [r \in Runs |-> None]
    /\ dlCopied = [r \in Runs |-> None]
    /\ dlFetched = [r \in Runs |-> FALSE]
    /\ dlBefore = [r \in Runs |-> None]
    /\ dlResult = [r \in Runs |-> "none"]
    /\ dlHandle = [r \in Runs |-> None]
    /\ dlAtReturn = [r \in Runs |-> None]
    /\ dlRewrote = FALSE

SpecDownload == DownloadInit /\ [][DownloadStep]_vars

\* the call of run r was made with a checksum
DlWithSum(r) == dlBefore[r] # None /\ dlExpected[r] # None

\* the file at the target when run r's call started, and the one there now
DlFileBefore(r) == Get(dlBefore[r])[DlTarget(r)]

DlFileNow(r) == disk[DlTarget(r)]

\* the content has the digest the call expects
DlMatches(content, r) == EqIgnoreAsciiCase(Sha1Hex(content), Get(dlExpected[r]))

\* the file at the target had the expected digest when the call started
DlHadMatch(r) ==
    /\ DlWithSum(r)
    /\ DlFileBefore(r) # NoFile
    /\ DlMatches(DlFileBefore(r), r)

\* C3: a call with a checksum that finds a file with that SHA-1 at the target
\* issues no network request, leaves every file as it was, and returns Ok.
CachedMatchNoFetch ==
    \A r \in dlRuns :
        DlHadMatch(r) =>
            /\ ~dlFetched[r]
            /\ disk = Get(dlBefore[r])
            /\ dlPc[r] \in {"check", "idle"}
            /\ dlPc[r] = "idle" => dlResult[r] = "ok"

\* such a call has returned, and the checksum was spelled in upper case
CachedMatchNoFetchWitness ==
    \E r \in dlRuns :
        /\ DlHadMatch(r)
        /\ dlResult[r] = "ok"
        /\ Get(dlExpected[r]) # Sha1Hex(DlFileNow(r))

\* C4: a call with a checksum that finds no file, or a file with another
\* SHA-1, at the target goes to the network before it returns, and whenever a
\* call with a checksum returns Ok the file at the target has that SHA-1.
MismatchRefetched ==
    \A r \in dlRuns :
        DlWithSum(r) =>
            /\ (~DlHadMatch(r) /\ dlResult[r] # "none") => dlFetched[r]
            /\ dlResult[r] = "ok" =>
                  /\ DlFileNow(r) # NoFile
                  /\ DlMatches(DlFileNow(r), r)

\* a stale file with another digest was replaced by a verified download
MismatchRefetchedWitness ==
    \E r \in dlRuns :
        /\ DlWithSum(r)
        /\ DlFileBefore(r) \notin {NoFile, DlFileNow(r)}
        /\ dlFetched[r]
        /\ dlResult[r] = "ok"

DlWithoutSum(r) == dlBefore[r] # None /\ dlExpected[r] = None

\* C23: a call without an expected checksum that finds a file of size
\* greater than zero at the target issues no network request, leaves every
\* file as it was and returns Ok; one that finds no file or an empty file
\* goes to the network before it returns.
NoSumAcceptsNonEmpty ==
    \A r \in dlRuns :
        DlWithoutSum(r) =>
            IF DlFileBefore(r) \notin {NoFile, ""}
            THEN /\ ~dlFetched[r]
                 /\ disk = Get(dlBefore[r])
                 /\ dlPc[r] \in {"check", "idle"}
                 /\ dlPc[r] = "idle" => dlResult[r] = "ok"
            ELSE dlResult[r] # "none" => dlFetched[r]

\* a call without a checksum found a non-empty file and returned Ok without
\* a request
NoSumAcceptsNonEmptyWitness ==
    \E r \in dlRuns :
        /\ DlWithoutSum(r)
        /\ DlFileBefore(r) \notin {NoFile, ""}
        /\ dlResult[r] = "ok"
        /\ ~dlFetched[r]

\* two pipeline runs for different profiles share the cache and fetch the
\* same checksummed artifact
SharedInit ==
    /\ mode = "shared"
    /\ RtIdle
    /\ StIdle
    /\ LbIdle
    /\ BaIdle
    /\ SvIdle
    /\ LvIdle
    /\ LaIdle
    /\ PvIdle
    /\ NvIdle
    /\ ExIdle
    /\ MgIdle
    /\ RvIdle
    /\ RuIdle
    /\ dlRuns = Runs
    /\ disk \in [DlPaths -> Contents \cup {NoFile}]
    /\ dlPc = [r \in Runs |-> "idle"]
    /\ dlPath = [r \in Runs |-> None]
    /\ dlExpected = [r \in Runs |-> None]
    /\ dlBody = [r \in Runs |-> None]
    /\ dlCopied = [r \in Runs |-> None]
    /\ dlFetched = [r \in Runs |-> FALSE]
    /\ dlBefore = [r \in Runs |-> None]
    /\ dlResult = [r \in Runs |-> "none"]
    /\ dlHandle = [r \in Runs |-> None]
    /\ dlAtReturn = [r \in Runs |-> None]
    /\ dlRewrote = FALSE

SpecShared == SharedInit /\ [][DownloadStep]_vars

\* C12: however two runs that share the caches and fetch the same
\* checksummed artifact interleave, a call that returns success leaves a file
\* with the expected checksum at the final cache path at that moment, and no
\* file that had the expected checksum is ever rewritten or replaced.
SharedCacheSafe ==
    /\ \A r \in dlRuns :
          (dlResult[r] = "ok" /\ dlAtReturn[r] # None) =>
              /\ Get(dlAtReturn[r]) # NoFile
              /\ DlMatches(Get(dlAtReturn[r]), r)
    /\ ~dlRewrote

\* ------------------------------------------------------------------------
\* merge_versions
\* ------------------------------------------------------------------------
\* the parts of a maven coordinate joined with ':'
RECURSIVE Coord(_)
Coord(parts) ==
    IF Len(parts) = 1 THEN <<parts[1]>>
    ELSE <<parts[1], ":">> \o Coord(Tail(parts))

\* library_key: group:artifact, plus the classifier when there is one
library_key(name) ==
    LET parts == Split(name, ":")
        n     == Len(parts)
    IN  IF n = 3 THEN Some(parts[1] \o <<":">> \o parts[2])
        ELSE IF n >= 4 THEN Some(parts[1] \o <<":">> \o parts[2] \o <<":">> \o parts[4])
        ELSE IF n = 2 THEN Some(parts[1] \o <<":">> \o parts[2])
        ELSE None

\* a library; url is the repository override, which differs between the
\* manifests of different publishers
Library(name, url) == [name |-> name, url |-> url]

\* if child.f.is_none() { child.f = parent.f.take(); }
InheritField(parentField, childField) ==
    IF childField = None THEN parentField ELSE childField

\* the argument lists concatenated child first
MergeArgumentsChildFirst(parentArgs, childArgs) ==
    IF parentArgs # None /\ childArgs # None
    THEN Some([game |-> Get(childArgs).game \o Get(parentArgs).game,
               jvm  |-> Get(childArgs).jvm \o Get(parentArgs).jvm])
    ELSE IF parentArgs # None THEN parentArgs
    ELSE childArgs

\* lines 1227-1242: match (parent.arguments.take(), child.arguments.take())
MergeArguments(parentArgs, childArgs) ==
    IF parentArgs # None /\ childArgs # None
    THEN Some([game |-> Get(parentArgs).game \o Get(childArgs).game,
               jvm  |-> Get(parentArgs).jvm \o Get(childArgs).jvm])
    ELSE IF parentArgs # None THEN parentArgs
    ELSE childArgs

\* the keys of a library list (lines 1252-1256)
LibraryKeys(libs) ==
    {Get(library_key(libs[i].name)) :
        i \in {j \in 1..Len(libs) : library_key(libs[j].name) # None}}

\* lines 1260-1268: the parent libraries not dominated by a key seen so far
RECURSIVE KeepUndominated(_, _)
KeepUndominated(parentLibs, seen) ==
    IF parentLibs = <<>> THEN <<>>
    ELSE LET lib       == parentLibs[1]
             key       == library_key(lib.name)
             dominated == key # None /\ Get(key) \in seen
         IN  IF dominated THEN KeepUndominated(Tail(parentLibs), seen)
             ELSE <<lib>> \o KeepUndominated(Tail(parentLibs),
                                IF key # None THEN seen \cup {Get(key)} ELSE seen)

\* the retained parent libraries put before the child's
MergeLibrariesParentFirst(parentLibs, childLibs) ==
    IF parentLibs # <<>>
    THEN KeepUndominated(parentLibs, LibraryKeys(childLibs)) \o childLibs
    ELSE childLibs

\* the two library lists appended with no deduplication
MergeLibrariesNoDedup(parentLibs, childLibs) == childLibs \o parentLibs

\* lines 1244-1270
MergeLibraries(parentLibs, childLibs) ==
    IF parentLibs # <<>>
    THEN childLibs \o KeepUndominated(parentLibs, LibraryKeys(childLibs))
    ELSE childLibs

\* lines 1220-1286
merge_versions(parent, child) ==
    [id                  |-> child.id,
     version_type        |-> child.version_type,
     main_class          |-> InheritField(parent.main_class, child.main_class),
     minecraft_arguments |-> InheritField(parent.minecraft_arguments,
                                          child.minecraft_arguments),
     arguments           |-> MergeArguments(parent.arguments, child.arguments),
     libraries           |-> MergeLibraries(parent.libraries, child.libraries),
     downloads           |-> InheritField(parent.downloads, child.downloads),
     asset_index         |-> InheritField(parent.asset_index, child.asset_index),
     assets              |-> InheritField(parent.assets, child.assets),
     inherits_from       |-> parent.inherits_from]

\* the Option fields of VersionJson other than inherits_from
OptionalFields ==
    {"version_type", "main_class", "minecraft_arguments", "arguments",
     "downloads", "asset_index", "assets"}

\* those of them that hold one value rather than lists that are concatenated
ScalarFields == OptionalFields \ {"arguments"}

\* the descriptors of one side of a merge: every optional field absent or
\* set to a value of that side (the two sides never agree on a value)
SideDescriptors(side, parentLink) ==
    {[id                  |-> side,
      version_type        |-> vt,
      main_class          |-> mc,
      minecraft_arguments |-> ma,
      arguments           |-> ar,
      libraries           |-> li,
      downloads           |-> dw,
      asset_index         |-> ai,
      assets              |-> at,
      inherits_from       |-> parentLink] :
        vt \in {None, Some(side)}, mc \in {None, Some(side)},
        ma \in {None, Some(side)},
        ar \in {None, Some([game |-> <<side>>, jvm |-> <<>>])},
        li \in {<<>>, <<Library(Coord(<<"g", "a", side>>), Some(side))>>},
        dw \in {None, Some(side)}, ai \in {None, Some(side)},
        at \in {None, Some(side)}}

MergeInit ==
    /\ mode = "merge"
    /\ RtIdle
    /\ StIdle
    /\ LbIdle
    /\ BaIdle
    /\ SvIdle
    /\ LvIdle
    /\ LaIdle
    /\ PvIdle
    /\ NvIdle
    /\ ExIdle
    /\ DlIdle
    /\ RvIdle
    /\ RuIdle
    /\ \E parent \in SideDescriptors("p", None),
          child \in SideDescriptors("c", Some("p")) :
         /\ mgParent = Some(parent)
         /\ mgChild = Some(child)
    /\ mgMerged = None

\* merged = merge_versions(parent, child)
MergeCall ==
    /\ mode = "merge"
    /\ mgMerged = None
    /\ mgMerged' = Some(merge_versions(Get(mgParent), Get(mgChild)))
    /\ UNCHANGED <<mode, rtVars, stVars, lbVars, baVars, svVars, lvVars, laVars, pvVars, nvVars, exVars, dlVars, rvVars, ruVars, mgParent, mgChild>>

MergeStep == MergeCall

SpecMerge == MergeInit /\ [][MergeStep]_vars

\* C7: for every optional single-valued field of the descriptor other than
\* the id and the parent link, the merged descriptor carries the child's
\* value when the child defines the field and the parent's value when the
\* child omits it.  (The structured argument lists are concatenated, C9.)
MergeChildWinsElseParent ==
    mgMerged # None =>
        \A f \in ScalarFields :
            Get(mgMerged)[f] = IF Get(mgChild)[f] # None THEN Get(mgChild)[f]
                               ELSE Get(mgParent)[f]

\* ------------------------------------------------------------------------
\* resolve_version
\* ------------------------------------------------------------------------
\* the id resolve_version is called with
StartId == "a"

VersionDigit(k) == CASE k = "a" -> "1" [] k = "b" -> "2" [] k = "c" -> "3"

OtherId(k) == CASE k = "a" -> "b" [] k = "b" -> "c" [] k = "c" -> "a"

\* what a descriptor stored under key k may declare: nothing; a library of
\* its own version next to others, with arguments; or several libraries with
\* one dedup key, with arguments that share a token with other descriptors
DescriptorContents(k) ==
    {[libraries |-> <<>>, arguments |-> None],
     [libraries |-> <<Library(Coord(<<"g", "a", VersionDigit(k)>>), Some(k)),
                      Library(Coord(<<"g", "b", "1">>), Some(k)),
                      Library(<<"x">>, Some(k))>>,
      arguments |-> Some([game |-> <<k>>, jvm |-> <<"-D", k>>])],
     [libraries |-> <<Library(Coord(<<"g", "a", VersionDigit(k)>>), Some(k)),
                      Library(Coord(<<"g", "a", "9">>), Some(k)),
                      Library(Coord(<<"g", "a", VersionDigit(k), "n">>), Some(k))>>,
      arguments |-> Some([game |-> <<"--demo", k>>, jvm |-> <<>>])]}

Descriptor(id, parentLink, content) ==
    [id                  |-> id,
     version_type        |-> None,
     main_class          |-> None,
     minecraft_arguments |-> None,
     arguments           |-> content.arguments,
     libraries           |-> content.libraries,
     downloads           |-> None,
     asset_index         |-> None,
     assets              |-> None,
     inherits_from       |-> parentLink]

ParentLinks == {None} \cup {Some(k) : k \in VersionIds}

NoContent == [libraries |-> <<>>, arguments |-> None]

\* descriptors whose "id" is the key k they are stored or served under
OwnDescriptors(k, contents) ==
    {Descriptor(k, link, c) : link \in ParentLinks, c \in contents}

\* descriptors in a file versions/k/k.json whose "id" is not k: the id inside
\* the JSON is whatever its writer put there
ForeignDescriptors(k) ==
    {Descriptor(OtherId(k), link, NoContent) : link \in ParentLinks}

\* id k is unknown, cached locally, or only in the manifest
StoreOptions(stored, served) ==
    {[file |-> None, remote |-> None]}
        \cup {[file |-> Some(d), remote |-> None] : d \in stored}
        \cup {[file |-> None, remote |-> Some(d)] : d \in served}

\* stores for the walk along inheritsFrom: any link, any id inside the file
WalkStore(k) ==
    StoreOptions(OwnDescriptors(k, {NoContent}) \cup ForeignDescriptors(k),
                 OwnDescriptors(k, {NoContent}))

\* stores for the fold: any link, any declared libraries and arguments
FoldStore(k) ==
    StoreOptions(OwnDescriptors(k, DescriptorContents(k)),
                 OwnDescriptors(k, DescriptorContents(k)))

\* seen.contains(..) mistaken for a comparison with the previous id only
CycleDetectedLastOnly(seen, id) == seen # <<>> /\ Last(seen) = id

\* line 443: seen.contains(&current.id)
CycleDetected(seen, id) == id \in Range(seen)

\* lines 455-458: fold the chain from the root ancestor to the start
RECURSIVE FoldFrom(_, _, _)
FoldFrom(chain, i, merged) ==
    IF i = 0 THEN merged
    ELSE FoldFrom(chain, i - 1, merge_versions(merged, chain[i]))

FoldChain(chain) == FoldFrom(chain, Len(chain) - 1, Last(chain))

\* resolve_version(paths, StartId) is entered
RvEntered ==
    /\ ExIdle
    /\ DlIdle
    /\ MgIdle
    /\ RuIdle
    /\ rvPc = "load"
    /\ rvNext = Some(StartId)
    /\ rvCurrent = None
    /\ rvSeen = <<>>
    /\ rvChain = <<>>
    /\ rvLoads = 0
    /\ rvResult = "none"
    /\ rvCycleId = None
    /\ rvMerged = None

StoreIs(sa, sb, sc) ==
    LET pick == [k \in VersionIds |->
                    CASE k = "a" -> sa [] k = "b" -> sb [] k = "c" -> sc]
    IN  /\ versionFiles = [k \in VersionIds |-> pick[k].file]
        /\ manifest = [k \in VersionIds |-> pick[k].remote]

ResolveInit ==
    /\ mode = "resolve"
    /\ RtIdle
    /\ StIdle
    /\ LbIdle
    /\ BaIdle
    /\ SvIdle
    /\ LvIdle
    /\ LaIdle
    /\ PvIdle
    /\ NvIdle
    /\ \E sa \in WalkStore("a"), sb \in WalkStore("b"), sc \in WalkStore("c") :
         StoreIs(sa, sb, sc)
    /\ RvEntered

ChainInit ==
    /\ mode = "resolve"
    /\ RtIdle
    /\ StIdle
    /\ LbIdle
    /\ BaIdle
    /\ SvIdle
    /\ LvIdle
    /\ LaIdle
    /\ PvIdle
    /\ NvIdle
    /\ \E sa \in FoldStore("a"), sb \in FoldStore("b"), sc \in FoldStore("c") :
         StoreIs(sa, sb, sc)
    /\ RvEntered

\* load_version_json, lines 464-471: the cached file is read and parsed
RvLoadCached ==
    /\ mode = "resolve"
    /\ rvPc = "load"
    /\ rvLoads < MaxLoads
    /\ versionFiles[Get(rvNext)] # None
    /\ rvCurrent' = versionFiles[Get(rvNext)]
    /\ rvLoads' = rvLoads + 1
    /\ rvPc' = "visit"
    /\ UNCHANGED <<mode, rtVars, stVars, lbVars, baVars, svVars, lvVars, laVars, pvVars, nvVars, exVars, dlVars, mgVars, ruVars, versionFiles, manifest, rvNext, rvSeen, rvChain, rvResult, rvCycleId, rvMerged>>

\* load_version_json, lines 473-490: the manifest entry is fetched, written
\* verbatim to the versions directory and parsed
RvLoadFetch ==
    /\ mode = "resolve"
    /\ rvPc = "load"
    /\ rvLoads < MaxLoads
    /\ versionFiles[Get(rvNext)] = None
    /\ manifest[Get(rvNext)] # None
    /\ versionFiles' = [versionFiles EXCEPT ![Get(rvNext)] = manifest[Get(rvNext)]]
    /\ rvCurrent' = manifest[Get(rvNext)]
    /\ rvLoads' = rvLoads + 1
    /\ rvPc' = "visit"
    /\ UNCHANGED <<mode, rtVars, stVars, lbVars, baVars, svVars, lvVars, laVars, pvVars, nvVars, exVars, dlVars, mgVars, ruVars, manifest, rvNext, rvSeen, rvChain, rvResult, rvCycleId, rvMerged>>

\* load_version_json, lines 474-478: "version not found in manifest"
RvLoadNotFound ==
    /\ mode = "resolve"
    /\ rvPc = "load"
    /\ rvLoads < MaxLoads
    /\ versionFiles[Get(rvNext)] = None
    /\ manifest[Get(rvNext)] = None
    /\ rvLoads' = rvLoads + 1
    /\ rvResult' = "err_not_found"
    /\ rvPc' = "done"
    /\ UNCHANGED <<mode, rtVars, stVars, lbVars, baVars, svVars, lvVars, laVars, pvVars, nvVars, exVars, dlVars, mgVars, ruVars, versionFiles, manifest, rvNext, rvCurrent, rvSeen, rvChain, rvCycleId, rvMerged>>

\* lines 443-452: one turn of the loop on the descriptor just loaded
RvVisit ==
    /\ mode = "resolve"
    /\ rvPc = "visit"
    /\ LET current == Get(rvCurrent)
       IN  IF CycleDetected(rvSeen, current.id)
           THEN /\ rvResult' = "err_cycle"
                /\ rvCycleId' = Some(current.id)
                /\ rvPc' = "done"
                /\ UNCHANGED <<rvSeen, rvChain, rvNext>>
           ELSE /\ rvSeen' = Append(rvSeen, current.id)
                /\ rvChain' = Append(rvChain, current)
                /\ IF current.inherits_from # None
                   THEN rvNext' = current.inherits_from /\ rvPc' = "load"
                   ELSE rvNext' = rvNext /\ rvPc' = "fold"
                /\ UNCHANGED <<rvResult, rvCycleId>>
    /\ UNCHANGED <<mode, rtVars, stVars, lbVars, baVars, svVars, lvVars, laVars, pvVars, nvVars, exVars, dlVars, mgVars, ruVars, versionFiles, manifest, rvCurrent, rvLoads, rvMerged>>

\* lines 455-460: merge the chain and return Ok
RvFold ==
    /\ mode = "resolve"
    /\ rvPc = "fold"
    /\ rvMerged' = Some(FoldChain(rvChain))
    /\ rvResult' = "ok"
    /\ rvPc' = "done"
    /\ UNCHANGED <<mode, rtVars, stVars, lbVars, baVars, svVars, lvVars, laVars, pvVars, nvVars, exVars, dlVars, mgVars, ruVars, versionFiles, manifest, rvNext, rvCurrent, rvSeen, rvChain, rvLoads, rvCycleId>>

ResolveStep == RvLoadCached \/ RvLoadFetch \/ RvLoadNotFound \/ RvVisit \/ RvFold

\* resolve_version runs on its thread until it returns
SpecResolve == ResolveInit /\ [][ResolveStep]_vars /\ WF_vars(ResolveStep)

SpecChain == ChainInit /\ [][ResolveStep]_vars /\ WF_vars(ResolveStep)

\* the descriptor load_version_json yields for id k, if any
Lookup(k) == IF versionFiles[k] # None THEN versionFiles[k] ELSE manifest[k]

\* following inheritsFrom from k comes back to an id already passed
RECURSIVE LinksCycleFrom(_, _)
LinksCycleFrom(k, passed) ==
    IF k \in passed THEN TRUE
    ELSE IF Lookup(k) = None THEN FALSE
    ELSE LET link == Get(Lookup(k)).inherits_from
         IN  link # None /\ LinksCycleFrom(Get(link), passed \cup {k})

InheritanceCycle == LinksCycleFrom(StartId, {})

\* C6: when the inheritsFrom links reachable from the start id form a cycle,
\* resolve_version loads at most one descriptor more than there are ids,
\* never returns a merged descriptor, and ends with the cycle error, which
\* names an id it has seen before.
ResolveCycleAborts ==
    /\ [](InheritanceCycle =>
            /\ rvLoads <= Cardinality(VersionIds) + 1
            /\ rvResult \in {"none", "err_cycle"}
            /\ rvMerged = None
            /\ rvResult = "err_cycle" => Get(rvCycleId) \in Range(rvSeen))
    /\ (InheritanceCycle ~> rvResult = "err_cycle")

\* the cycle a -> b -> a was walked and refused
ResolveCycleAbortsWitness ==
    /\ InheritanceCycle
    /\ rvResult = "err_cycle"
    /\ Len(rvChain) = 2
    /\ rvCycleId = Some(StartId)

\* ------------------------------------------------------------------------
\* The merged libraries and arguments of a resolved chain
\* ------------------------------------------------------------------------
\* the libraries of a list that have dedup key `key`
WithKey(libs, key) == SelectSeq(libs, LAMBDA lib : library_key(lib.name) = Some(key))

\* the chain entries that declare a library with that key
Declaring(key) == {i \in 1..Len(rvChain) : WithKey(rvChain[i].libraries, key) # <<>>}

\* the most specific of them (the chain starts with the start descriptor)
MostSpecific(key) == CHOOSE i \in Declaring(key) : \A j \in Declaring(key) : i <= j

ChainKeys == UNION {LibraryKeys(rvChain[i].libraries) : i \in 1..Len(rvChain)}

\* C8 as stated: a dedup key declared by more than one descriptor of the
\* chain is carried by exactly one library of the merged list, the one of the
\* most specific descriptor that declares it.
LibraryDedupExactlyOne ==
    rvResult = "ok" =>
        \A key \in ChainKeys :
            Cardinality(Declaring(key)) >= 2 =>
                LET kept == WithKey(Get(rvMerged).libraries, key)
                IN  /\ Len(kept) = 1
                    /\ kept[1] \in Range(rvChain[MostSpecific(key)].libraries)

\* C8: every library the merged list carries for a dedup key comes from the
\* most specific descriptor of the chain that declares the key, none from a
\* less specific one; the start descriptor keeps all its libraries with that
\* key, and the key is carried by exactly one library when the descriptor it
\* comes from declares exactly one.
LibraryDedupChildPrecedence ==
    rvResult = "ok" =>
        \A key \in ChainKeys :
            LET from == rvChain[MostSpecific(key)].libraries
                kept == WithKey(Get(rvMerged).libraries, key)
            IN  /\ kept # <<>>
                /\ \A i \in 1..Len(kept) : kept[i] \in Range(from)
                /\ MostSpecific(key) = 1 => kept = WithKey(from, key)
                /\ Len(WithKey(from, key)) = 1 => Len(kept) = 1

\* parent and child both declared g:a, in different versions, and the merged
\* list has the child's only
LibraryDedupChildPrecedenceWitness ==
    /\ rvResult = "ok"
    /\ Len(rvChain) = 2
    /\ \E key \in ChainKeys :
         /\ Declaring(key) = {1, 2}
         /\ Len(WithKey(rvChain[2].libraries, key)) = 2
         /\ WithKey(Get(rvMerged).libraries, key) = WithKey(rvChain[1].libraries, key)
         /\ Len(WithKey(Get(rvMerged).libraries, key)) = 1

\* list `sub` is list `full` with some elements left out
RECURSIVE IsSubsequence(_, _)
IsSubsequence(sub, full) ==
    IF sub = <<>> THEN TRUE
    ELSE IF full = <<>> THEN FALSE
    ELSE IF sub[1] = full[1] THEN IsSubsequence(Tail(sub), Tail(full))
    ELSE IsSubsequence(sub, Tail(full))

\* the two descriptors the last merge_versions call of the fold is given:
\* the start descriptor and the merge of all its ancestors
LastMergeChild == rvChain[1]

LastMergeParent == FoldChain(Tail(rvChain))

\* C27: when merge_versions is given a parent with a non-empty library list,
\* the merged list is the child's whole list, in its order, followed by the
\* retained parent libraries in the order the parent had them.
MergedLibrariesChildFirst ==
    (rvResult = "ok" /\ Len(rvChain) >= 2 /\ LastMergeParent.libraries # <<>>) =>
        LET merged == Get(rvMerged).libraries
            child  == LastMergeChild.libraries
        IN  /\ Len(merged) >= Len(child)
            /\ SubSeq(merged, 1, Len(child)) = child
            /\ IsSubsequence(SubSeq(merged, Len(child) + 1, Len(merged)),
                             LastMergeParent.libraries)

\* a loader over a vanilla descriptor: both declare libraries, one of the
\* parent's is dropped and two are retained behind the child's three
MergedLibrariesChildFirstWitness ==
    /\ rvResult = "ok"
    /\ Len(rvChain) = 2
    /\ Len(rvChain[1].libraries) = 3
    /\ Len(rvChain[2].libraries) = 3
    /\ Len(Get(rvMerged).libraries) = 5
    /\ Get(rvMerged).libraries[4] \in Range(rvChain[2].libraries)

\* the lists of one kind ("game" or "jvm") of the chain's descriptors, from
\* the root ancestor down to the start descriptor
RECURSIVE ConcatRootFirst(_, _)
ConcatRootFirst(chain, kind) ==
    IF chain = <<>> THEN <<>>
    ELSE ConcatRootFirst(Tail(chain), kind)
            \o (IF chain[1].arguments = None THEN <<>>
                ELSE Get(chain[1].arguments)[kind])

\* C9: the merged game list is the game lists of the chain's descriptors
\* concatenated from the root ancestor down to the start descriptor, nothing
\* dropped, duplicated or reordered, and likewise the jvm list; the merged
\* descriptor has no structured arguments only if no descriptor has any.
ArgumentsConcatParentFirst ==
    rvResult = "ok" =>
        LET merged == Get(rvMerged).arguments
        IN  IF \A i \in 1..Len(rvChain) : rvChain[i].arguments = None
            THEN merged = None
            ELSE /\ merged # None
                 /\ Get(merged).game = ConcatRootFirst(rvChain, "game")
                 /\ Get(merged).jvm = ConcatRootFirst(rvChain, "jvm")

\* a chain of three descriptors, each with arguments, one token in two of them
ArgumentsConcatParentFirstWitness ==
    /\ rvResult = "ok"
    /\ Len(rvChain) = 3
    /\ \A i \in 1..3 : rvChain[i].arguments # None
    /\ Len(Get(Get(rvMerged).arguments).game) = 5
    /\ Len(Get(Get(rvMerged).arguments).jvm) = 2

\* ------------------------------------------------------------------------
\* Rule evaluation
\* ------------------------------------------------------------------------
\* str::contains
Contains(haystack, needle) ==
    \E i \in 0..(Len(haystack) - Len(needle)) :
        SubSeq(haystack, i + 1, i + Len(needle)) = needle

Arm64 == <<"a", "r", "m", "6", "4">>

X86_64 == <<"x", "8", "6", "_", "6", "4">>

X86 == <<"x", "8", "6">>

\* HashMap::get(key).copied().unwrap_or(false)
FlagOr(features, key) == IF key \in DOMAIN features THEN features[key] ELSE FALSE

\* a match that wants the arch to be equal
MatchesArchEqual(rule, ctx) ==
    /\ rule.os # None =>
          /\ Get(rule.os).name # None => Get(Get(rule.os).name) = ctx.os_name
          /\ Get(rule.os).arch # None => ctx.os_arch = Get(Get(rule.os).arch)
    /\ rule.features # None =>
          \A key \in DOMAIN Get(rule.features) :
              FlagOr(ctx.features, key) = Get(rule.features)[key]

\* Rule::matches
matches(rule, ctx) ==
    /\ rule.os # None =>
          /\ Get(rule.os).name # None => Get(Get(rule.os).name) = ctx.os_name
          /\ Get(rule.os).arch # None => Contains(ctx.os_arch, Get(Get(rule.os).arch))
    /\ rule.features # None =>
          \A key \in DOMAIN Get(rule.features) :
              FlagOr(ctx.features, key) = Get(rule.features)[key]

\* rule.action.as_deref().unwrap_or("allow") == "allow"
ActionAllows(rule) == rule.action = None \/ Get(rule.action) = "allow"

\* a scan that stops at the first matching rule
RECURSIVE FirstMatchScan(_, _, _)
FirstMatchScan(rules, ctx, i) ==
    IF i > Len(rules) THEN FALSE
    ELSE IF matches(rules[i], ctx) THEN ActionAllows(rules[i])
    ELSE FirstMatchScan(rules, ctx, i + 1)

rules_allow_first_match(rules, ctx) ==
    rules = <<>> \/ FirstMatchScan(rules, ctx, 1)

\* lines 944-950: the loop with its running flag
RECURSIVE RulesScan(_, _, _, _)
RulesScan(rules, ctx, i, allowed) ==
    IF i > Len(rules) THEN allowed
    ELSE RulesScan(rules, ctx, i + 1,
                   IF matches(rules[i], ctx) THEN ActionAllows(rules[i]) ELSE allowed)

\* rules_allow
rules_allow(rules, ctx) ==
    IF rules = <<>> THEN TRUE ELSE RulesScan(rules, ctx, 1, FALSE)

OsRule(name, arch) == [name |-> name, arch |-> arch]

Rule(action, os, features) == [action |-> action, os |-> os, features |-> features]

\* the OS predicates, feature predicates and actions of manifest rules
OsRules ==
    {None,
     Some(OsRule(Some("linux"), None)),
     Some(OsRule(Some("windows"), None)),
     Some(OsRule(None, Some(Arm64))),
     Some(OsRule(Some("osx"), Some(X86)))}

FeatureRules ==
    {None,
     Some([f \in {"is_demo_user"} |-> TRUE]),
     Some([f \in {"is_demo_user", "has_quick_plays_support"} |-> FALSE])}

Actions == {None, Some("allow"), Some("disallow")}

Rules == {Rule(a, os, fs) : a \in Actions, os \in OsRules, fs \in FeatureRules}

\* RuleContext: the OS name and arch of a build, and the feature flags, which
\* RuleContext::new sets to false
RuleContext(os_name, os_arch, demo) ==
    [os_name  |-> os_name,
     os_arch  |-> os_arch,
     features |-> [f \in {"is_demo_user", "has_custom_resolution"} |->
                     f = "is_demo_user" /\ demo]]

Contexts ==
    {RuleContext(b[1], b[2], demo) :
        b \in {<<"linux", Arm64>>, <<"linux", X86_64>>, <<"windows", X86_64>>,
               <<"osx", Arm64>>, <<"osx", X86_64>>},
        demo \in BOOLEAN}

RulesInit ==
    /\ mode = "rules"
    /\ RtIdle
    /\ StIdle
    /\ LbIdle
    /\ BaIdle
    /\ SvIdle
    /\ LvIdle
    /\ LaIdle
    /\ PvIdle
    /\ NvIdle
    /\ ExIdle
    /\ DlIdle
    /\ MgIdle
    /\ RvIdle
    /\ ruRules \in TuplesUpTo(Rules, MaxRules)
    /\ ruCtx \in {Some(c) : c \in Contexts}
    /\ ruMatched = None
    /\ ruResult = None

\* library_allowed / collect_args call rules_allow(rules, &ctx)
RulesAllowCall ==
    /\ mode = "rules"
    /\ ruResult = None
    /\ ruMatched' = Some([i \in 1..Len(ruRules) |-> matches(ruRules[i], Get(ruCtx))])
    /\ ruResult' = Some(rules_allow(ruRules, Get(ruCtx)))
    /\ UNCHANGED <<mode, rtVars, stVars, lbVars, baVars, svVars, lvVars, laVars, pvVars, nvVars, exVars, dlVars, mgVars, rvVars, ruRules, ruCtx>>

RulesStep == RulesAllowCall

SpecRules == RulesInit /\ [][RulesStep]_vars

\* the positions of the rules that match the context
Matching == {i \in 1..Len(ruRules) : matches(ruRules[i], Get(ruCtx))}

LastMatching == CHOOSE i \in Matching : \A j \in Matching : j <= i

AllowLinuxDisallowArm64 ==
    <<Rule(Some("allow"), Some(OsRule(Some("linux"), None)), None),
      Rule(Some("disallow"), Some(OsRule(None, Some(Arm64))), None)>>

AllowWindows == <<Rule(Some("allow"), Some(OsRule(Some("windows"), None)), None)>>

\* C10: rules_allow is true for the empty list; for a non-empty list it is
\* the action of the last rule in declaration order that matches the context
\* (true for allow or no action, false for disallow) and false when no rule
\* matches; so [allow linux, disallow arm64] on linux/arm64 and [allow
\* windows] off Windows are not applicable.
RulesLastMatchWins ==
    ruResult # None =>
        /\ Get(ruResult) =
              (IF ruRules = <<>> THEN TRUE
               ELSE IF Matching = {} THEN FALSE
               ELSE LET last == ruRules[LastMatching]
                    IN  last.action \in {None, Some("allow")})
        /\ (ruRules = AllowLinuxDisallowArm64
              /\ Get(ruCtx).os_name = "linux" /\ Get(ruCtx).os_arch = Arm64)
              => Get(ruResult) = FALSE
        /\ (ruRules = AllowWindows /\ Get(ruCtx).os_name # "windows")
              => Get(ruResult) = FALSE

\* [allow linux, disallow arm64] was evaluated on linux/arm64
RulesLastMatchWinsWitness ==
    /\ ruResult = Some(FALSE)
    /\ ruRules = AllowLinuxDisallowArm64
    /\ Get(ruCtx).os_name = "linux"
    /\ Get(ruCtx).os_arch = Arm64

\* the rule's OS name is absent or is the context's
OsNameHolds(rule, ctx) ==
    \/ rule.os = None
    \/ Get(rule.os).name = None
    \/ Get(rule.os).name = Some(ctx.os_name)

\* the rule's arch is absent or occurs inside the context's arch
OsArchHolds(rule, ctx) ==
    \/ rule.os = None
    \/ Get(rule.os).arch = None
    \/ \E from \in 1..(Len(ctx.os_arch) + 1), to \in 0..Len(ctx.os_arch) :
          SubSeq(ctx.os_arch, from, to) = Get(Get(rule.os).arch)

\* every flag the rule names has the rule's value in the context, an unknown
\* flag counting as false
FeaturesHold(rule, ctx) ==
    \/ rule.features = None
    \/ \A key \in DOMAIN Get(rule.features) :
          IF Get(rule.features)[key]
          THEN key \in DOMAIN ctx.features /\ ctx.features[key]
          ELSE key \notin DOMAIN ctx.features \/ ~ctx.features[key]

\* C11: a rule matches a context exactly when its OS name, if given, equals
\* the context's, its arch, if given, is a substring of the context's arch,
\* and every feature flag it names has the context's value (false for a flag
\* the context does not know); a rule without OS and feature predicate
\* matches every context.
RuleMatchesExactlyWhen ==
    ruMatched # None =>
        \A i \in 1..Len(ruRules) :
            /\ Get(ruMatched)[i] =
                  (/\ OsNameHolds(ruRules[i], Get(ruCtx))
                   /\ OsArchHolds(ruRules[i], Get(ruCtx))
                   /\ FeaturesHold(ruRules[i], Get(ruCtx)))
            /\ (ruRules[i].os = None /\ ruRules[i].features = None)
                  => Get(ruMatched)[i]

\* a rule for osx/x86 matched an osx/x86_64 context, and a rule naming a flag
\* the context does not know (as false) matched as well
RuleMatchesExactlyWhenWitness ==
    /\ ruMatched # None
    /\ Len(ruRules) = 2
    /\ ruRules[1].os = Some(OsRule(Some("osx"), Some(X86)))
    /\ Get(ruCtx).os_arch = X86_64
    /\ Get(ruMatched)[1]
    /\ ruRules[2].features # None
    /\ "has_quick_plays_support" \in DOMAIN Get(ruRules[2].features)
    /\ Get(ruMatched)[2]

\* ------------------------------------------------------------------------
\* Two launches of one profile and the instance's natives directory
\* ------------------------------------------------------------------------
\* the file the i-th native archive of the version unpacks
NativeFile(i) == <<"lib", i>>

\* a file an earlier launch left in the directory
StaleFile == <<"old", 0>>

\* an extraction that writes nothing
ExtractedIntoNothing(dir, file) == dir

\* extract_natives, lines 907-928: the entry's file is created in the directory
ExtractedInto(dir, file) == dir \cup {file}

\* the modes in which prepare uses the natives directory: two launches of
\* one profile at once, or one launch alone
NvModes == {"natives", "natives_one"}

\* a clearing that leaves the directory as it is
RemoveDirAllSkipped(dir) == dir

\* fs::remove_dir_all(&natives_dir)
RemoveDirAll(dir) == None

NvReturn(r, result, dir) ==
    /\ nvPc' = [nvPc EXCEPT ![r] = "idle"]
    /\ nvResult' = [nvResult EXCEPT ![r] = result]
    /\ nvAtReturn' = [nvAtReturn EXCEPT ![r] = Some(IF dir = None THEN {} ELSE Get(dir))]

\* launch calls prepare, which comes to ensure_libraries
NvPrepare(r) ==
    /\ mode \in NvModes
    /\ mode = "natives_one" => r = "r1"
    /\ nvPc[r] = "idle"
    /\ nvResult[r] = "none"
    /\ nvPc' = [nvPc EXCEPT ![r] = "exists"]
    /\ UNCHANGED <<mode, rtVars, stVars, lbVars, baVars, svVars, lvVars, laVars, pvVars, exVars, dlVars, mgVars, rvVars, ruVars, nvCleared, nvCount, nvDir, nvIdx, nvExtracted, nvErased, nvAtReturn, nvResult>>

\* line 594: natives_dir.exists()
NvExists(r) ==
    /\ mode \in NvModes
    /\ nvPc[r] = "exists"
    /\ nvPc' = [nvPc EXCEPT ![r] = IF nvDir # None THEN "remove" ELSE "create"]
    /\ UNCHANGED <<mode, rtVars, stVars, lbVars, baVars, svVars, lvVars, laVars, pvVars, exVars, dlVars, mgVars, rvVars, ruVars, nvCleared, nvCount, nvDir, nvIdx, nvExtracted, nvErased, nvAtReturn, nvResult>>

\* lines 595-600: fs::remove_dir_all(&natives_dir); it fails when the
\* directory has gone since the test
NvRemove(r) ==
    /\ mode \in NvModes
    /\ nvPc[r] = "remove"
    /\ IF nvDir = None
       THEN /\ NvReturn(r, "err_clear", nvDir)
            /\ UNCHANGED <<nvDir, nvErased, nvCleared>>
       ELSE /\ nvDir' = RemoveDirAll(nvDir)
            /\ nvCleared' = nvCleared \cup Get(nvDir)
            /\ nvErased' = [q \in Runs |->
                              IF q = r THEN nvErased[q]
                              ELSE nvErased[q] \cup (nvExtracted[q] \cap Get(nvDir))]
            /\ nvPc' = [nvPc EXCEPT ![r] = "create"]
            /\ UNCHANGED <<nvResult, nvAtReturn>>
    /\ UNCHANGED <<mode, rtVars, stVars, lbVars, baVars, svVars, lvVars, laVars, pvVars, exVars, dlVars, mgVars, rvVars, ruVars, nvCount, nvIdx, nvExtracted>>

\* lines 602-603: fs::create_dir_all(&natives_dir)
NvCreate(r) ==
    /\ mode \in NvModes
    /\ nvPc[r] = "create"
    /\ nvDir' = IF nvDir = None THEN Some({}) ELSE nvDir
    /\ nvPc' = [nvPc EXCEPT ![r] = "libraries"]
    /\ UNCHANGED <<mode, rtVars, stVars, lbVars, baVars, svVars, lvVars, laVars, pvVars, exVars, dlVars, mgVars, rvVars, ruVars, nvCleared, nvCount, nvIdx, nvExtracted, nvErased, nvAtReturn, nvResult>>

\* lines 605-651: the next library with natives is extracted into the
\* directory; dest.canonicalize() (line 907) fails when the directory is gone
NvExtract(r) ==
    /\ mode \in NvModes
    /\ nvPc[r] = "libraries"
    /\ nvIdx[r] < nvCount
    /\ IF nvDir = None
       THEN /\ NvReturn(r, "err_extract", nvDir)
            /\ UNCHANGED <<nvDir, nvIdx, nvExtracted>>
       ELSE /\ nvDir' = Some(ExtractedInto(Get(nvDir), NativeFile(nvIdx[r] + 1)))
            /\ nvIdx' = [nvIdx EXCEPT ![r] = @ + 1]
            /\ nvExtracted' = [nvExtracted EXCEPT ![r] = @ \cup {NativeFile(nvIdx[r] + 1)}]
            /\ UNCHANGED <<nvPc, nvResult, nvAtReturn>>
    /\ UNCHANGED <<mode, rtVars, stVars, lbVars, baVars, svVars, lvVars, laVars, pvVars, exVars, dlVars, mgVars, rvVars, ruVars, nvCleared, nvCount, nvErased>>

\* lines 653-664 and prepare 70-113: nothing else touches the directory, and
\* prepare returns the LaunchPlan
NvPlan(r) ==
    /\ mode \in NvModes
    /\ nvPc[r] = "libraries"
    /\ nvIdx[r] = nvCount
    /\ NvReturn(r, "plan", nvDir)
    /\ UNCHANGED <<mode, rtVars, stVars, lbVars, baVars, svVars, lvVars, laVars, pvVars, exVars, dlVars, mgVars, rvVars, ruVars, nvCleared, nvCount, nvDir, nvIdx, nvExtracted, nvErased>>

NativesStep ==
    \E r \in Runs :
        \/ NvPrepare(r)
        \/ NvExists(r)
        \/ NvRemove(r)
        \/ NvCreate(r)
        \/ NvExtract(r)
        \/ NvPlan(r)

\* two launches of the same profile start; the directory may be absent or
\* hold what an earlier launch left
NativesInit ==
    /\ mode = "natives"
    /\ RtIdle
    /\ StIdle
    /\ LbIdle
    /\ BaIdle
    /\ SvIdle
    /\ LvIdle
    /\ LaIdle
    /\ PvIdle
    /\ ExIdle
    /\ DlIdle
    /\ MgIdle
    /\ RvIdle
    /\ RuIdle
    /\ nvCount \in 1..MaxNatives
    /\ nvDir \in {None, Some({}), Some({StaleFile}), Some({StaleFile, NativeFile(1)})}
    /\ nvPc = [r \in Runs |-> "idle"]
    /\ nvIdx = [r \in Runs |-> 0]
    /\ nvExtracted = [r \in Runs |-> {}]
    /\ nvErased = [r \in Runs |-> {}]
    /\ nvCleared = {}
    /\ nvAtReturn = [r \in Runs |-> None]
    /\ nvResult = [r \in Runs |-> "none"]

SpecNatives == NativesInit /\ [][NativesStep]_vars

\* one launch alone; the directory may be absent or hold what an earlier
\* launch left
NativesOneInit ==
    /\ mode = "natives_one"
    /\ RtIdle
    /\ StIdle
    /\ LbIdle
    /\ BaIdle
    /\ SvIdle
    /\ LvIdle
    /\ ExIdle
    /\ DlIdle
    /\ MgIdle
    /\ RvIdle
    /\ RuIdle
    /\ PvIdle
    /\ LaIdle
    /\ nvCount \in 0..MaxNatives
    /\ nvDir \in {None} \cup {Some(fs) : fs \in SUBSET ({StaleFile} \cup {NativeFile(i) : i \in 1..(MaxNatives + 1)})}
    /\ nvPc = [r \in Runs |-> "idle"]
    /\ nvIdx = [r \in Runs |-> 0]
    /\ nvExtracted = [r \in Runs |-> {}]
    /\ nvErased = [r \in Runs |-> {}]
    /\ nvCleared = {}
    /\ nvAtReturn = [r \in Runs |-> None]
    /\ nvResult = [r \in Runs |-> "none"]

SpecNativesOne == NativesOneInit /\ [][NativesStep]_vars

\* the files run r extracted that were not in the directory when it returned
NvMissing(r) == nvExtracted[r] \ Get(nvAtReturn[r])

\* C13: two launches of one profile race on the natives directory. A run
\* that returns a LaunchPlan lacks a file it extracted only when the other
\* run's delete-and-recreate removed that file after it was extracted, and
\* there is an interleaving in which that happens.
NativesLostOnlyToOtherRun ==
    \A r \in Runs :
        nvResult[r] = "plan" => NvMissing(r) \subseteq nvErased[r]

\* a run returned a LaunchPlan while its natives directory lacked a file it
\* had extracted, which the other run's clearing had removed
NativesLostOnlyToOtherRunWitness ==
    \E r \in Runs :
        /\ nvResult[r] = "plan"
        /\ NvMissing(r) # {}
        /\ NvMissing(r) \subseteq nvErased[r]

\* ------------------------------------------------------------------------
\* Loader provisioning: resolve_version_id and the ensure_*_profile functions
\* ------------------------------------------------------------------------
\* version strings are sequences of tokens; "-" is the dash the code looks for
McVersions == {<<"1">>}

LoaderVersions == {<<"4">>, <<"1", "-", "4">>, <<"Latest">>}

\* loader_version.eq_ignore_ascii_case("latest")
IsLatest(loader_version) == loader_version \in {<<"latest">>, <<"Latest">>, <<"LATEST">>}

\* what the "latest" lookups of the loaders' services can name
LatestAnswers == {<<"4">>, <<"5">>}

\* the `id` field of the profile JSON the Fabric and Quilt services serve
ProfileIds == {<<"fl", "-", "1">>, <<>>}

\* lines 333-338: MC-ForgeVersion
ForgeVersionId(mc_version, resolved_loader) ==
    IF "-" \in Range(resolved_loader) THEN resolved_loader
    ELSE mc_version \o <<"-">> \o resolved_loader

\* the index of the first dash
FirstDash(str) == CHOOSE i \in 1..Len(str) : str[i] = "-" /\ \A j \in 1..(i - 1) : str[j] # "-"

\* version_id.splitn(2, '-').nth(1).unwrap_or(&version_id)
AfterFirstDash(str) ==
    IF "-" \in Range(str) THEN SubSeq(str, FirstDash(str) + 1, Len(str)) ELSE str

\* str up to its first dash
BeforeFirstDash(str) ==
    IF "-" \in Range(str) THEN SubSeq(str, 1, FirstDash(str) - 1) ELSE str

\* line 340
ForgeId(version_id) == <<"forge", "-">> \o version_id

\* line 366: the id under which the code looks for the installer's descriptor
ForgeInstallerId(mc_version, version_id) ==
    mc_version \o <<"-", "forge", "-">> \o AfterFirstDash(version_id)

\* line 275
NeoforgeId(resolved_version) == <<"neoforge", "-">> \o resolved_version

\* the id under which the installer of a loader version writes its descriptor:
\* Forge's uses {mc}-forge-{forge version} of the version it installs,
\* NeoForge's uses neoforge-{version}
InstallerOwnId(loader_type, version) ==
    IF loader_type = "forge"
    THEN BeforeFirstDash(version) \o <<"-", "forge", "-">> \o AfterFirstDash(version)
    ELSE NeoforgeId(version)

\* how a run of the installer subprocess ends
InstallerOutcomes == {"spawn_failed", "exit_0", "exit_1"}

\* the record of one call
Call(loader_type, mc_version, loader_version, result, id, canonical, installer, fetchedInstaller, fetchedOther, created) ==
    [loader_type |-> loader_type, mc_version |-> mc_version,
     loader_version |-> loader_version,
     result |-> result,              \* "ok" or the error
     id |-> id,                      \* Some(returned id) on success
     canonical |-> canonical,        \* Some(canonical id) once it is computed
     installer |-> installer,        \* "not_run", or how the subprocess ended
     fetchedInstaller |-> fetchedInstaller, \* the installer jar was downloaded
     fetchedOther |-> fetchedOther,  \* a "latest" list or a profile was fetched
     created |-> created]            \* the ids that got a descriptor in this call

PvRecord(call, files, cache) ==
    /\ pvCalls' = IF Len(pvCalls) = 2 THEN <<pvCalls[2], call>> ELSE Append(pvCalls, call)
    /\ pvCount' = pvCount + 1
    /\ pvFiles' = files
    /\ pvCache' = cache

\* run_forge_installer then the check of its product, as a result:
\* lines 419-427
InstallerResult(outcome) ==
    CASE outcome = "spawn_failed" -> "err_spawn"
      [] outcome = "exit_1"       -> "err_status"
      [] OTHER                    -> "ok"

\* a write that leaves the disk as it was
WrittenNowhere(files, id) == files

\* fs::write(&target, ...): the descriptor of `id` is on disk
WrittenTarget(files, id) == files \cup {id}

\* the descriptors on disk after the installer subprocess ended: one that
\* did not start writes nothing; one that ran may have written its descriptor
AfterInstaller(files, outcome, wrote, ownId) ==
    IF outcome # "spawn_failed" /\ wrote THEN files \cup {ownId} ELSE files

\* ensure_fabric_profile / ensure_quilt_profile; the profile request fails
\* (None), or its JSON has no id (Some(None)) or an id
EnsureMetaProfile(loader_type) ==
    /\ mode = "provision"
    /\ pvCount < MaxCalls
    /\ \E mc \in McVersions, lv \in LoaderVersions,
          latest \in {None} \cup {Some(v) : v \in LatestAnswers},
          profile \in {None, Some(None)} \cup {Some(Some(id)) : id \in ProfileIds} :
         IF IsLatest(lv) /\ latest = None
         THEN PvRecord(Call(loader_type, mc, lv, "err_latest", None, None,
                            "not_run", FALSE, TRUE, {}), pvFiles, pvCache)
         ELSE IF profile = None
         THEN PvRecord(Call(loader_type, mc, lv, "err_network", None, None,
                            "not_run", FALSE, TRUE, {}), pvFiles, pvCache)
         ELSE IF Get(profile) = None
         THEN PvRecord(Call(loader_type, mc, lv, "err_no_id", None, None,
                            "not_run", FALSE, TRUE, {}), pvFiles, pvCache)
         ELSE LET id == Get(Get(profile))
              IN  PvRecord(Call(loader_type, mc, lv, "ok", Some(id), Some(id),
                                "not_run", FALSE, TRUE, {id} \ pvFiles),
                           IF id \in pvFiles THEN pvFiles ELSE WrittenTarget(pvFiles, id),
                           pvCache)
    /\ UNCHANGED <<mode, rtVars, stVars, lbVars, baVars, svVars, lvVars, laVars, exVars, dlVars, mgVars, rvVars, ruVars, nvVars>>

EnsureFabricProfile == EnsureMetaProfile("fabric")

EnsureQuiltProfile == EnsureMetaProfile("quilt")

\* a test that never finds the descriptor
NeverProvisioned(files, id) == FALSE

\* lines 277-279 and 343-345: target.exists()
AlreadyProvisioned(files, id) == id \in files

\* ensure_forge_profile / ensure_neoforge_profile: the common course, with
\* `id` the canonical id, `expected` the id under which the installer's
\* descriptor is looked for, `own` the id the installer writes
EnsureInstalled(loader_type, mc, lv, version, id, expected, own, usedLatest) ==
    \E download \in {"ok", "failed"}, outcome \in InstallerOutcomes, wrote \in BOOLEAN :
        LET jar == <<loader_type, version>>
            cached == jar \in pvCache
            files1 == AfterInstaller(pvFiles, outcome, wrote, own)
            made1 == files1 \ pvFiles
            \* lines 375-381: Forge copies the installer's descriptor under
            \* the canonical id; NeoForge's installer has written it there
            files2 == IF loader_type = "forge" THEN WrittenTarget(files1, id) ELSE files1
        IN  IF AlreadyProvisioned(pvFiles, id)
            THEN PvRecord(Call(loader_type, mc, lv, "ok", Some(id), Some(id),
                               "not_run", FALSE, usedLatest, {}), pvFiles, pvCache)
            ELSE IF ~cached /\ download = "failed"
            THEN PvRecord(Call(loader_type, mc, lv, "err_network", None, Some(id),
                               "not_run", TRUE, usedLatest, {}), pvFiles, pvCache)
            ELSE IF InstallerResult(outcome) # "ok"
            THEN PvRecord(Call(loader_type, mc, lv, InstallerResult(outcome), None, Some(id),
                               outcome, ~cached, usedLatest, made1),
                          files1, pvCache \cup {jar})
            ELSE IF expected \notin files1
            THEN PvRecord(Call(loader_type, mc, lv, "err_no_descriptor", None, Some(id),
                               outcome, ~cached, usedLatest, made1),
                          files1, pvCache \cup {jar})
            ELSE PvRecord(Call(loader_type, mc, lv, "ok", Some(id), Some(id),
                               outcome, ~cached, usedLatest, files2 \ pvFiles),
                          files2, pvCache \cup {jar})

\* ensure_forge_profile
EnsureForgeProfile ==
    /\ mode = "provision"
    /\ pvCount < MaxCalls
    /\ \E mc \in McVersions, lv \in LoaderVersions,
          latest \in {None} \cup {Some(v) : v \in LatestAnswers} :
         IF IsLatest(lv) /\ latest = None
         THEN PvRecord(Call("forge", mc, lv, "err_latest", None, None,
                            "not_run", FALSE, TRUE, {}), pvFiles, pvCache)
         ELSE LET resolved_loader == IF IsLatest(lv) THEN Get(latest) ELSE lv
                  version_id == ForgeVersionId(mc, resolved_loader)
              IN  EnsureInstalled("forge", mc, lv, version_id, ForgeId(version_id),
                                  ForgeInstallerId(mc, version_id),
                                  InstallerOwnId("forge", version_id), IsLatest(lv))
    /\ UNCHANGED <<mode, rtVars, stVars, lbVars, baVars, svVars, lvVars, laVars, exVars, dlVars, mgVars, rvVars, ruVars, nvVars>>

\* ensure_neoforge_profile
EnsureNeoforgeProfile ==
    /\ mode = "provision"
    /\ pvCount < MaxCalls
    /\ \E mc \in McVersions, lv \in LoaderVersions,
          latest \in {None} \cup {Some(v) : v \in LatestAnswers} :
         IF IsLatest(lv) /\ latest = None
         THEN PvRecord(Call("neoforge", mc, lv, "err_latest", None, None,
                            "not_run", FALSE, TRUE, {}), pvFiles, pvCache)
         ELSE LET resolved_version == IF IsLatest(lv) THEN Get(latest) ELSE lv
              IN  EnsureInstalled("neoforge", mc, lv, resolved_version,
                                  NeoforgeId(resolved_version), NeoforgeId(resolved_version),
                                  InstallerOwnId("neoforge", resolved_version), IsLatest(lv))
    /\ UNCHANGED <<mode, rtVars, stVars, lbVars, baVars, svVars, lvVars, laVars, exVars, dlVars, mgVars, rvVars, ruVars, nvVars>>

\* resolve_version_id with no loader, or with a loader type it does not know
ResolveWithoutProvisioner ==
    /\ mode = "provision"
    /\ pvCount < MaxCalls
    /\ \E mc \in McVersions :
         \/ PvRecord(Call("none", mc, <<>>, "ok", Some(mc), None,
                          "not_run", FALSE, FALSE, {}), pvFiles, pvCache)
         \/ PvRecord(Call("liteloader", mc, <<"4">>, "err_unsupported", None, None,
                          "not_run", FALSE, FALSE, {}), pvFiles, pvCache)
    /\ UNCHANGED <<mode, rtVars, stVars, lbVars, baVars, svVars, lvVars, laVars, exVars, dlVars, mgVars, rvVars, ruVars, nvVars>>

\* resolve_version_id, lines 136-147
ProvisionStep ==
    \/ ResolveWithoutProvisioner
    \/ EnsureFabricProfile
    \/ EnsureQuiltProfile
    \/ EnsureNeoforgeProfile
    \/ EnsureForgeProfile

\* the versions directory may hold descriptors of earlier sessions
ProvisionInit ==
    /\ mode = "provision"
    /\ RtIdle
    /\ StIdle
    /\ LbIdle
    /\ BaIdle
    /\ SvIdle
    /\ LvIdle
    /\ LaIdle
    /\ ExIdle
    /\ DlIdle
    /\ MgIdle
    /\ RvIdle
    /\ RuIdle
    /\ NvIdle
    /\ pvFiles \in SUBSET {ForgeId(<<"1", "-", "4">>), <<"fl", "-", "1">>}
    /\ pvCache = {}
    /\ pvCalls = <<>>
    /\ pvCount = 0

SpecProvision == ProvisionInit /\ [][ProvisionStep]_vars

SupportedLoaders == {"fabric", "quilt", "forge", "neoforge"}

\* C14: whenever resolve_version_id returns an id for a fabric, quilt, forge
\* or neoforge profile, a descriptor file exists under versions/ keyed by
\* exactly that id.
ProvisionedIdHasDescriptor ==
    \A i \in DOMAIN pvCalls :
        (pvCalls[i].loader_type \in SupportedLoaders /\ pvCalls[i].result = "ok")
            => /\ pvCalls[i].id # None
               /\ Get(pvCalls[i].id) \in pvFiles

\* a Fabric profile was written and a Forge installer ran, and each call
\* returned its id
ProvisionedIdHasDescriptorWitness ==
    /\ Len(pvCalls) = 2
    /\ pvCalls[1].loader_type = "fabric" /\ pvCalls[1].result = "ok"
    /\ pvCalls[1].created # {}
    /\ pvCalls[2].loader_type = "forge" /\ pvCalls[2].result = "ok"
    /\ pvCalls[2].installer = "exit_0"

\* the installer subprocess was invoked in the call
RanInstaller(call) == call.installer # "not_run"

\* two calls in a row of the Forge provisioner for the same versions
ForgeTwice ==
    /\ Len(pvCalls) = 2
    /\ pvCalls[1].loader_type = "forge"
    /\ pvCalls[2].loader_type = "forge"
    /\ pvCalls[1].mc_version = pvCalls[2].mc_version
    /\ pvCalls[1].loader_version = pvCalls[2].loader_version

\* the second call returned the first call's id and neither fetched the
\* installer nor invoked it
SecondCallReused ==
    /\ pvCalls[2].result = "ok"
    /\ pvCalls[2].id = pvCalls[1].id
    /\ ~RanInstaller(pvCalls[2])
    /\ ~pvCalls[2].fetchedInstaller

InstallerLoaders == {"forge", "neoforge"}

\* C16: when the Forge or NeoForge installer fails to spawn or exits with a
\* non-zero status, the provisioner returns the installer error, and the call
\* creates no descriptor under the canonical version id.
InstallerFailureLeavesNoDescriptor ==
    \A i \in DOMAIN pvCalls :
        (/\ pvCalls[i].loader_type \in InstallerLoaders
         /\ pvCalls[i].installer \in {"spawn_failed", "exit_1"})
        => /\ pvCalls[i].result \in {"err_spawn", "err_status"}
           /\ Get(pvCalls[i].canonical) \notin pvCalls[i].created

\* ------------------------------------------------------------------------
\* prepare: the JVM arguments of the LaunchPlan
\* ------------------------------------------------------------------------
\* an argument string is kept as the prefix the code may look for and the
\* rest of the string
Str(head, rest) == <<head, rest>>

\* str::starts_with for the prefixes the code uses
StartsWithPrefix(arg, pref) == arg[1] = pref

Cp == Str("-cp", "")

Classpath == Str("-classpath", "")

XmxPrefix == "-Xmx"

LibraryPathPrefix == "-Djava.library.path="

\* the natives directory of the instance, as a string
NativesPath == "natives"

\* substitute_vars: ${natives_directory} is replaced by its value
substitute_vars(value) ==
    IF value[2] = "${natives_directory}" THEN Str(value[1], NativesPath) ELSE value

\* Argument::Simple and Argument::WithRules
Simple(value) == [rules |-> None, values |-> <<value>>]

WithRules(rules, values) == [rules |-> Some(rules), values |-> values]

\* collect_args
RECURSIVE collect_args(_, _)
collect_args(list, ctx) ==
    IF list = <<>> THEN <<>>
    ELSE LET arg == list[1]
             out == IF arg.rules = None \/ rules_allow(Get(arg.rules), ctx)
                    THEN [i \in 1..Len(arg.values) |-> substitute_vars(arg.values[i])]
                    ELSE <<>>
         IN  out \o collect_args(Tail(list), ctx)

\* build_args, the JVM half: structured arguments are rendered, a legacy
\* descriptor has none
build_args(version, ctx) ==
    IF version.arguments # None THEN collect_args(Get(version.arguments), ctx) ELSE <<>>

\* prepare, lines 89-92
PushMemory(jvm_args, memory) ==
    IF memory # None /\ ~\E i \in 1..Len(jvm_args) : StartsWithPrefix(jvm_args[i], XmxPrefix)
    THEN Append(jvm_args, Str(XmxPrefix, Get(memory)))
    ELSE jvm_args

\* ensure_jvm_flag(&mut jvm_args, "-Djava.library.path", &natives_dir)
ensure_jvm_flag(args, pref, value) ==
    IF \E i \in 1..Len(args) : StartsWithPrefix(args[i], pref) THEN args
    ELSE Append(args, Str(pref, value))

\* Vec::remove
Remove(args, idx) == SubSeq(args, 1, idx - 1) \o SubSeq(args, idx + 1, Len(args))

\* strip_classpath_args: the loop, idx counted from 1
RECURSIVE StripFrom(_, _)
StripFrom(args, idx) ==
    IF idx > Len(args) THEN args
    ELSE IF args[idx] = Cp \/ args[idx] = Classpath
    THEN LET once == Remove(args, idx)
         IN  StripFrom(IF idx <= Len(once) THEN Remove(once, idx) ELSE once, idx)
    ELSE StripFrom(args, idx + 1)

\* a loop that steps past the place of a removed pair without looking at it
RECURSIVE StripSkipping(_, _)
StripSkipping(args, idx) ==
    IF idx > Len(args) THEN args
    ELSE IF args[idx] = Cp \/ args[idx] = Classpath
    THEN LET once == Remove(args, idx)
         IN  StripSkipping(IF idx <= Len(once) THEN Remove(once, idx) ELSE once, idx + 1)
    ELSE StripSkipping(args, idx + 1)

StripOnePass(args) == StripSkipping(args, 1)

strip_classpath_args(args) == StripFrom(args, 1)

\* what prepare returns: a plan, or an error
Plan(jvm_args, main_class) == [error |-> "none", jvm_args |-> jvm_args, main_class |-> main_class]

Failure(error) == [error |-> error, jvm_args |-> <<>>, main_class |-> ""]

\* a plan that falls back to a main class of its own
PlanWithDefaultMainClass(version, jvm_args) ==
    Plan(jvm_args, IF version.main_class = None THEN "net.minecraft.client.main.Main"
                   ELSE Get(version.main_class))

\* prepare, lines 101-113: the main class is required, then the plan is built
PlanWithMainClass(version, jvm_args) ==
    IF version.main_class = None
    THEN Failure("mainClass missing from version JSON")
    ELSE Plan(jvm_args, Get(version.main_class))

\* the JVM arguments of descriptors
DescriptorArguments ==
    {Simple(Cp),
     Simple(Str(LibraryPathPrefix, "${natives_directory}")),
     Simple(Str(XmxPrefix, "1G")),
     WithRules(AllowLinuxDisallowArm64, <<Cp, Str("-Dfoo", "${natives_directory}")>>)}

\* the free-form JVM arguments of profiles
ProfileArguments ==
    {Cp, Classpath, Str("-cp", "x"), Str(XmxPrefix, "8G"), Str(LibraryPathPrefix, "u")}

MergedVersions ==
    [main_class  : {None, Some("Main")},
     asset_index : {None, Some("17")},
     arguments   : {None} \cup {Some(l) : l \in TuplesUpTo(DescriptorArguments, MaxArgs)}]

Profiles ==
    [memory : {None, Some("4G")},
     args   : TuplesUpTo(ProfileArguments, MaxArgs)]

PrepareInit ==
    /\ mode = "prepare"
    /\ RtIdle
    /\ StIdle
    /\ LbIdle
    /\ BaIdle
    /\ SvIdle
    /\ LvIdle
    /\ ExIdle
    /\ DlIdle
    /\ MgIdle
    /\ RvIdle
    /\ RuIdle
    /\ NvIdle
    /\ PvIdle
    /\ laVersion \in {Some(v) : v \in MergedVersions}
    /\ laProfile \in {Some(q) : q \in Profiles}
    /\ laCtx \in {Some(RuleContext("linux", Arm64, FALSE)), Some(RuleContext("linux", X86_64, FALSE))}
    /\ laRendered = None
    /\ laUnstripped = None
    /\ laResult = None

\* prepare, lines 70-113, after the version was resolved and merged; a
\* download of ensure_assets or ensure_libraries may fail
Prepare ==
    /\ mode = "prepare"
    /\ laResult = None
    /\ LET version == Get(laVersion)
           profile == Get(laProfile)
           rendered == build_args(version, Get(laCtx))
           with_memory == PushMemory(rendered, profile.memory)
           with_extra == with_memory \o profile.args
           with_flag == ensure_jvm_flag(with_extra, LibraryPathPrefix, NativesPath)
       IN  \E downloads \in {"ok", "failed"} :
             IF version.asset_index = None
             THEN /\ laResult' = Some(Failure("assetIndex missing from version json"))
                  /\ UNCHANGED <<laRendered, laUnstripped>>
             ELSE IF downloads = "failed"
             THEN /\ laResult' = Some(Failure("download failed"))
                  /\ UNCHANGED <<laRendered, laUnstripped>>
             ELSE /\ laRendered' = Some(rendered)
                  /\ laUnstripped' = Some(with_flag)
                  /\ laResult' = Some(PlanWithMainClass(version, strip_classpath_args(with_flag)))
    /\ UNCHANGED <<mode, rtVars, stVars, lbVars, baVars, svVars, lvVars, exVars, dlVars, mgVars, rvVars, ruVars, nvVars, pvVars, laVersion, laProfile, laCtx>>

PrepareStep == Prepare

SpecPrepare == PrepareInit /\ [][PrepareStep]_vars

\* prepare returned a LaunchPlan
ReturnedPlan == laResult # None /\ Get(laResult).error = "none"

PlanArgs == Get(laResult).jvm_args

\* C17: whatever the merged descriptor, the memory setting and the extra JVM
\* arguments are, the JVM arguments of a returned LaunchPlan hold at least
\* one argument that begins with -Djava.library.path=.
PlanHasLibraryPath ==
    ReturnedPlan =>
        \E i \in 1..Len(PlanArgs) : StartsWithPrefix(PlanArgs[i], LibraryPathPrefix)

\* the positions of an argument list that hold -cp or -classpath
TokenAt(args) == {i \in 1..Len(args) : args[i] = Cp \/ args[i] = Classpath}

\* the positions that neither hold such a token nor follow one directly
MustKeep(args) == {i \in 1..Len(args) : i \notin TokenAt(args) /\ (i - 1) \notin TokenAt(args)}

\* the elements of args at the positions in keep, in their order
RECURSIVE Pick(_, _, _)
Pick(args, keep, i) ==
    IF i > Len(args) THEN <<>>
    ELSE (IF i \in keep THEN <<args[i]>> ELSE <<>>) \o Pick(args, keep, i + 1)

\* C18: after strip_classpath_args no element equals -cp or -classpath, every
\* element that neither was such a token nor followed one directly is kept,
\* and what is kept stays in its original order; so the JVM arguments of a
\* LaunchPlan hold no -cp or -classpath.
StripRemovesClasspathPairs ==
    (ReturnedPlan /\ laUnstripped # None) =>
        /\ TokenAt(PlanArgs) = {}
        /\ \E keep \in SUBSET (1..Len(Get(laUnstripped))) :
              /\ MustKeep(Get(laUnstripped)) \subseteq keep
              /\ PlanArgs = Pick(Get(laUnstripped), keep, 1)

\* a token that followed a token was removed with it, and an argument in
\* front of the pair was kept
StripRemovesClasspathPairsWitness ==
    /\ ReturnedPlan
    /\ laUnstripped # None
    /\ Len(Get(laUnstripped)) >= 4
    /\ Get(laUnstripped)[2] = Cp
    /\ Get(laUnstripped)[3] = Classpath
    /\ 1 \in MustKeep(Get(laUnstripped))
    /\ Len(PlanArgs) = Len(Get(laUnstripped)) - 2

\* C19: for a profile with memory M and a descriptor whose rendered JVM
\* arguments hold no -Xmx argument, the JVM arguments of a returned
\* LaunchPlan hold exactly one argument that begins with -Xmx, and it is
\* -XmxM, whatever the extra JVM arguments are.
PlanHasOneXmx ==
    (/\ ReturnedPlan
     /\ Get(laProfile).memory # None
     /\ laRendered # None
     /\ \A i \in 1..Len(Get(laRendered)) : ~StartsWithPrefix(Get(laRendered)[i], XmxPrefix))
    => LET xmx == SelectSeq(PlanArgs, LAMBDA a : StartsWithPrefix(a, XmxPrefix))
       IN  xmx = <<Str(XmxPrefix, Get(Get(laProfile).memory))>>

\* C20: prepare returns a LaunchPlan only if the merged descriptor has a main
\* class and an asset index; when either is absent it returns an error, and
\* the main class of a returned plan is the descriptor's.
PlanNeedsMainClassAndAssets ==
    laResult # None =>
        /\ ReturnedPlan =>
              /\ Get(laVersion).main_class # None
              /\ Get(laVersion).asset_index # None
              /\ Get(laResult).main_class = Get(Get(laVersion).main_class)
        /\ (Get(laVersion).main_class = None \/ Get(laVersion).asset_index = None)
              => Get(laResult).error # "none"

\* a descriptor with an asset index and no main class was refused after its
\* arguments had been built
PlanNeedsMainClassAndAssetsWitness ==
    /\ laResult # None
    /\ Get(laVersion).asset_index # None
    /\ Get(laVersion).main_class = None
    /\ laUnstripped # None
    /\ Get(laResult).error = "mainClass missing from version JSON"

\* C24: a call of ensure_libraries empties the natives directory before it
\* extracts anything, so while it extracts and when it has returned its
\* result the directory holds exactly the files this call extracted and
\* nothing an earlier run left.
NativesExactlyThisCall ==
    \A r \in Runs :
        /\ nvPc[r] = "libraries" => nvDir = Some(nvExtracted[r])
        /\ nvResult[r] = "plan" => nvAtReturn[r] = Some(nvExtracted[r])

\* a call that found files of an earlier run, among them one it does not
\* extract itself, returned with its own files only
NativesExactlyThisCallWitness ==
    /\ nvResult["r1"] = "plan"
    /\ nvExtracted["r1"] # {}
    /\ nvCleared \ nvExtracted["r1"] # {}
    /\ nvCleared \cap nvExtracted["r1"] # {}
    /\ nvAtReturn["r1"] = Some(nvExtracted["r1"])

\* ------------------------------------------------------------------------
\* load_version_json and the descriptor text it caches
\* ------------------------------------------------------------------------
\* a descriptor as text: the tokens of a JSON object that carries an id
JsonOf(id) == <<"{", id, "}">>

\* what a descriptor url may serve for id k: the descriptor, the descriptor
\* cut short, or a page that is not JSON
Texts(k) == {JsonOf(k), <<"{", k>>, <<"<html>">>}

\* serde_json::from_str::<VersionJson>: Some(the id) of a complete object
ParseVersionJson(text) ==
    IF Len(text) = 3 /\ text[1] = "{" /\ text[3] = "}" THEN Some(text[2]) ELSE None

LvRecord(id, result, fetched) ==
    /\ lvCount' = lvCount + 1
    /\ lvLast' = Some([id |-> id, result |-> result, fetched |-> fetched])

LoadInit ==
    /\ mode = "load"
    /\ RtIdle
    /\ StIdle
    /\ LbIdle
    /\ BaIdle
    /\ SvIdle
    /\ ExIdle
    /\ DlIdle
    /\ MgIdle
    /\ RvIdle
    /\ RuIdle
    /\ NvIdle
    /\ PvIdle
    /\ LaIdle
    /\ \E fa \in {None} \cup {Some(t) : t \in Texts("a")},
          fb \in {None} \cup {Some(t) : t \in Texts("b")} :
         lvFiles = [k \in LvIds |-> IF k = "a" THEN fa ELSE fb]
    /\ \E ra \in {None} \cup {Some(t) : t \in Texts("a")},
          rb \in {None} \cup {Some(t) : t \in Texts("b")} :
         lvRemote = [k \in LvIds |-> IF k = "a" THEN ra ELSE rb]
    /\ lvCount = 0
    /\ lvLast = None

\* lines 465-471: the cached file is read and parsed
LvLoadCached(id) ==
    /\ mode = "load"
    /\ lvCount < MaxCalls
    /\ lvFiles[id] # None
    /\ LvRecord(id, IF ParseVersionJson(Get(lvFiles[id])) # None THEN "ok" ELSE "err_parse",
                FALSE)
    /\ UNCHANGED <<mode, rtVars, stVars, lbVars, baVars, svVars, exVars, dlVars, mgVars, rvVars, ruVars, nvVars, pvVars, laVars, lvFiles, lvRemote>>

\* lines 473-478: no cached file and no manifest entry for the id
LvLoadNotFound(id) ==
    /\ mode = "load"
    /\ lvCount < MaxCalls
    /\ lvFiles[id] = None
    /\ lvRemote[id] = None
    /\ LvRecord(id, "err_not_found", FALSE)
    /\ UNCHANGED <<mode, rtVars, stVars, lbVars, baVars, svVars, exVars, dlVars, mgVars, rvVars, ruVars, nvVars, pvVars, laVars, lvFiles, lvRemote>>

\* line 480: download_text fails, nothing is written
LvLoadFetchFailed(id) ==
    /\ mode = "load"
    /\ lvCount < MaxCalls
    /\ lvFiles[id] = None
    /\ lvRemote[id] # None
    /\ LvRecord(id, "err_download", TRUE)
    /\ UNCHANGED <<mode, rtVars, stVars, lbVars, baVars, svVars, exVars, dlVars, mgVars, rvVars, ruVars, nvVars, pvVars, laVars, lvFiles, lvRemote>>

\* lines 485-486: fs::write(&path, &data)
WriteFetched(files, id, data) == [files EXCEPT ![id] = Some(data)]

\* lines 480-490: the text is fetched, written to the descriptor path, parsed
LvLoadFetch(id) ==
    /\ mode = "load"
    /\ lvCount < MaxCalls
    /\ lvFiles[id] = None
    /\ lvRemote[id] # None
    /\ LET data == Get(lvRemote[id])
       IN  /\ lvFiles' = WriteFetched(lvFiles, id, data)
           /\ LvRecord(id, IF ParseVersionJson(data) # None THEN "ok" ELSE "err_parse", TRUE)
    /\ UNCHANGED <<mode, rtVars, stVars, lbVars, baVars, svVars, exVars, dlVars, mgVars, rvVars, ruVars, nvVars, pvVars, laVars, lvRemote>>

LoadStep ==
    \E id \in LvIds :
        \/ LvLoadCached(id)
        \/ LvLoadNotFound(id)
        \/ LvLoadFetchFailed(id)
        \/ LvLoadFetch(id)

SpecLoad == LoadInit /\ [][LoadStep]_vars

\* C30: a call of load_version_json that fetched a descriptor whose text
\* does not parse returns an error and leaves no file at the descriptor path
\* of that id.
FetchedUnparsedLeavesNoFile ==
    (lvLast # None /\ Get(lvLast).fetched /\ lvRemote[Get(lvLast).id] # None
        /\ ParseVersionJson(Get(lvRemote[Get(lvLast).id])) = None) =>
            /\ Get(lvLast).result # "ok"
            /\ lvFiles[Get(lvLast).id] = None

\* ------------------------------------------------------------------------
\* substitute_vars over the whole variable map
\* ------------------------------------------------------------------------
\* the text ${name}; a string is a sequence of such placeholders and of
\* pieces of other text
Placeholder(name) == <<"${", name, "}">>

Text(t) == <<t>>

\* the variables that come from the account
VarNames == {"auth_player_name", "auth_access_token"}

\* what the account may hold: a username is any text the account service
\* returned, the token is a secret
VarMaps ==
    {[k \in VarNames |-> IF k = "auth_player_name" THEN name ELSE token] :
        name \in {<<Text("Steve")>>, <<Placeholder("auth_access_token")>>,
                  <<Placeholder("auth_player_name")>>},
        token \in {<<Text("secret")>>, <<Placeholder("auth_player_name")>>}}

TemplatePieces == {Text("--username")} \cup {Placeholder(k) : k \in VarNames}

Templates == UNION {[1..n -> TemplatePieces] : n \in 0..MaxTemplateLen}

\* str::replace: every occurrence of the pattern in the string as it is now
\* gives way to the value; the inserted text is not searched in this pass
RECURSIVE Replace(_, _, _)
Replace(out, pattern, val) ==
    IF out = <<>> THEN <<>>
    ELSE (IF out[1] = pattern THEN val ELSE <<out[1]>>) \o Replace(Tail(out), pattern, val)

\* lines 707-711: one replace per map entry, in the order the entries are visited
RECURSIVE SubstituteInOrder(_, _, _)
SubstituteInOrder(out, map, order) ==
    IF order = <<>> THEN out
    ELSE SubstituteInOrder(Replace(out, Placeholder(order[1]), map[order[1]]),
                           map, Tail(order))

\* the orders a HashMap's iterator may visit the keys in
VisitOrders ==
    {o \in [1..Cardinality(VarNames) -> VarNames] : Range(o) = VarNames}

\* every placeholder of the template replaced by its value, in one pass
RECURSIVE SubstituteOnce(_, _)
SubstituteOnce(template, map) ==
    IF template = <<>> THEN <<>>
    ELSE (IF \E k \in VarNames : template[1] = Placeholder(k)
          THEN map[CHOOSE k \in VarNames : template[1] = Placeholder(k)]
          ELSE <<template[1]>>) \o SubstituteOnce(Tail(template), map)

SubstituteInit ==
    /\ mode = "substitute"
    /\ RtIdle
    /\ StIdle
    /\ LbIdle
    /\ BaIdle
    /\ ExIdle
    /\ DlIdle
    /\ MgIdle
    /\ RvIdle
    /\ RuIdle
    /\ NvIdle
    /\ PvIdle
    /\ LaIdle
    /\ LvIdle
    /\ svTemplate \in Templates
    /\ svMap \in VarMaps
    /\ svOrder = None
    /\ svOut = None

\* out = substitute_vars(value, vars)
SubstituteCall ==
    /\ mode = "substitute"
    /\ svOut = None
    /\ \E order \in VisitOrders :
         /\ svOrder' = Some(order)
         /\ svOut' = Some(SubstituteInOrder(svTemplate, svMap, order))
    /\ UNCHANGED <<mode, rtVars, stVars, lbVars, baVars, exVars, dlVars, mgVars, rvVars, ruVars, nvVars, pvVars, laVars, lvVars, svTemplate, svMap>>

SubstituteStep == SubstituteCall

SpecSubstitute == SubstituteInit /\ [][SubstituteStep]_vars

\* C29: whatever order the map's entries are visited in, substitute_vars
\* returns the template with every ${name} placeholder replaced by the value
\* of name, and text that came in through a value is not substituted again.
SubstituteOrderFreeSinglePass ==
    svOut # None => Get(svOut) = SubstituteOnce(svTemplate, svMap)

\* ------------------------------------------------------------------------
\* build_args: structured arguments or the legacy blob
\* ------------------------------------------------------------------------
Space == Text(" ")

Quote == Text("'")

\* shell_words::split over the pieces of a string: blanks outside quotes
\* separate words, quotes group, an unclosed quote is an error (None)
RECURSIVE SplitFrom(_, _, _, _, _)
SplitFrom(raw, word, in_word, in_quote, out) ==
    IF raw = <<>>
    THEN IF in_quote THEN None
         ELSE Some(IF in_word THEN Append(out, word) ELSE out)
    ELSE IF raw[1] = Quote
    THEN SplitFrom(Tail(raw), word, TRUE, ~in_quote, out)
    ELSE IF raw[1] = Space /\ ~in_quote
    THEN SplitFrom(Tail(raw), <<>>, FALSE, FALSE, IF in_word THEN Append(out, word) ELSE out)
    ELSE SplitFrom(Tail(raw), Append(word, raw[1]), TRUE, in_quote, out)

split(raw) == SplitFrom(raw, <<>>, FALSE, FALSE, <<>>)

\* the variable map of a launch: an ordinary account
LaunchVars ==
    [k \in VarNames |-> IF k = "auth_player_name" THEN <<Text("Steve")>> ELSE <<Text("secret")>>]

\* collect_args with the whole variable map
RECURSIVE CollectArgs(_, _, _, _)
CollectArgs(list, ctx, map, order) ==
    IF list = <<>> THEN <<>>
    ELSE LET arg == list[1]
             out == IF arg.rules = None \/ rules_allow(Get(arg.rules), ctx)
                    THEN [i \in 1..Len(arg.values) |->
                             SubstituteInOrder(arg.values[i], map, order)]
                    ELSE <<>>
         IN  out \o CollectArgs(Tail(list), ctx, map, order)

Args(jvm_args, game_args) == [error |-> "none", jvm_args |-> jvm_args, game_args |-> game_args]

ArgsFailure(error) == [error |-> error, jvm_args |-> <<>>, game_args |-> <<>>]

\* the tokens of the legacy blob as game arguments
LegacyGameArgs(raw, map, order) ==
    LET parts == split(raw)
    IN  IF parts = None THEN ArgsFailure("failed to parse minecraftArguments")
        ELSE Args(<<>>, [i \in 1..Len(Get(parts)) |->
                            SubstituteInOrder(Get(parts)[i], map, order)])

\* the legacy tokens rendered behind the structured game arguments
BuildArgsLegacyToo(version, ctx, map, order) ==
    LET structured == IF version.arguments = None THEN Args(<<>>, <<>>)
                      ELSE Args(CollectArgs(Get(version.arguments).jvm, ctx, map, order),
                                CollectArgs(Get(version.arguments).game, ctx, map, order))
        legacy     == IF version.minecraft_arguments = None THEN Args(<<>>, <<>>)
                      ELSE LegacyGameArgs(Get(version.minecraft_arguments), map, order)
    IN  IF legacy.error # "none" THEN legacy
        ELSE Args(structured.jvm_args, structured.game_args \o legacy.game_args)

\* build_args, lines 667-683
BuildArgs(version, ctx, map, order) ==
    IF version.arguments # None
    THEN Args(CollectArgs(Get(version.arguments).jvm, ctx, map, order),
              CollectArgs(Get(version.arguments).game, ctx, map, order))
    ELSE IF version.minecraft_arguments # None
    THEN LegacyGameArgs(Get(version.minecraft_arguments), map, order)
    ELSE Args(<<>>, <<>>)

\* the legacy blobs of descriptors: plain words, a quoted word with a blank
\* in it, and one with an unclosed quote
LegacyBlobs ==
    {<<Text("--username"), Space, Placeholder("auth_player_name")>>,
     <<Text("--title"), Space, Space, Quote, Text("a"), Space, Text("b"), Quote>>,
     <<Quote, Text("--open")>>}

\* the structured arguments of descriptors
StructuredArguments(side) ==
    {[jvm |-> <<>>, game |-> <<>>],
     [jvm  |-> <<Simple(<<Text("-D"), Text(side)>>)>>,
      game |-> <<Simple(<<Text("--accessToken")>>),
                 Simple(<<Placeholder("auth_access_token")>>),
                 WithRules(AllowWindows, <<<<Text("--win")>>>>),
                 WithRules(AllowLinuxDisallowArm64, <<<<Text("--linux")>>, <<Text(side)>>>>)>>]}

ArgumentDescriptors(side, parentLink) ==
    {[Descriptor(side, parentLink, [libraries |-> <<>>, arguments |-> ar])
        EXCEPT !.minecraft_arguments = ma] :
        ar \in {None} \cup {Some(a) : a \in StructuredArguments(side)},
        ma \in {None} \cup {Some(b) : b \in LegacyBlobs}}

\* collect_args builds its RuleContext from the host
HostContext == RuleContext("linux", X86_64, FALSE)

ArgsInit ==
    /\ mode = "args"
    /\ RtIdle
    /\ StIdle
    /\ LbIdle
    /\ ExIdle
    /\ DlIdle
    /\ MgIdle
    /\ RvIdle
    /\ RuIdle
    /\ NvIdle
    /\ PvIdle
    /\ LaIdle
    /\ LvIdle
    /\ SvIdle
    /\ baParent \in {Some(d) : d \in ArgumentDescriptors("p", None)}
    /\ baChild \in {Some(d) : d \in ArgumentDescriptors("c", Some("p"))}
    /\ baVersion = None
    /\ baOut = None

\* resolve_version: the child is merged over its parent
BaMerge ==
    /\ mode = "args"
    /\ baVersion = None
    /\ baVersion' = Some(merge_versions(Get(baParent), Get(baChild)))
    /\ UNCHANGED <<mode, rtVars, stVars, lbVars, exVars, dlVars, mgVars, rvVars, ruVars, nvVars, pvVars, laVars, lvVars, svVars, baParent, baChild, baOut>>

\* (jvm_args, game_args) = build_args(&version, &vars)
BaBuild ==
    /\ mode = "args"
    /\ baVersion # None
    /\ baOut = None
    /\ \E order \in VisitOrders :
         baOut' = Some(BuildArgs(Get(baVersion), HostContext, LaunchVars, order))
    /\ UNCHANGED <<mode, rtVars, stVars, lbVars, exVars, dlVars, mgVars, rvVars, ruVars, nvVars, pvVars, laVars, lvVars, svVars, baParent, baChild, baVersion>>

ArgsStep == BaMerge \/ BaBuild

SpecArgs == ArgsInit /\ [][ArgsStep]_vars

\* the words of all legacy blobs, rendered
LegacyWords ==
    UNION {IF split(b) = None THEN {}
           ELSE {SubstituteOnce(w, LaunchVars) : w \in Range(Get(split(b)))} : b \in LegacyBlobs}

\* the values of the arguments of a structured list that the host's rules allow
RECURSIVE AllowedValues(_)
AllowedValues(list) ==
    IF list = <<>> THEN <<>>
    ELSE (IF list[1].rules = None \/ rules_allow(Get(list[1].rules), HostContext)
          THEN list[1].values ELSE <<>>) \o AllowedValues(Tail(list))

Rendered(values) == [i \in 1..Len(values) |-> SubstituteOnce(values[i], LaunchVars)]

\* C28: when the merged descriptor has structured arguments, build_args
\* returns exactly their rendering and no word of the legacy blob; when it has
\* none and has a legacy blob, every word of the blob becomes a game argument
\* and there is no JVM argument.
StructuredElseLegacy ==
    baOut # None =>
        LET version == Get(baVersion)
            out     == Get(baOut)
        IN  IF version.arguments # None
            THEN /\ out.error = "none"
                 /\ out.jvm_args = Rendered(AllowedValues(Get(version.arguments).jvm))
                 /\ out.game_args = Rendered(AllowedValues(Get(version.arguments).game))
                 /\ Range(out.jvm_args \o out.game_args) \cap LegacyWords = {}
            ELSE IF version.minecraft_arguments # None
                    /\ split(Get(version.minecraft_arguments)) # None
            THEN /\ out.error = "none"
                 /\ out.jvm_args = <<>>
                 /\ out.game_args = Rendered(Get(split(Get(version.minecraft_arguments))))
            ELSE out.jvm_args = <<>> /\ out.game_args = <<>>

\* a structured child over a legacy-only parent: the merged descriptor has
\* both, and the game arguments are the child's alone
StructuredElseLegacyWitness ==
    /\ baOut # None
    /\ Get(baChild).arguments # None
    /\ Get(baChild).minecraft_arguments = None
    /\ Get(baParent).arguments = None
    /\ Get(baParent).minecraft_arguments # None
    /\ split(Get(Get(baParent).minecraft_arguments)) # None
    /\ Get(baVersion).minecraft_arguments = Get(baParent).minecraft_arguments
    /\ Len(Get(baOut).game_args) = 4

\* ------------------------------------------------------------------------
\* prepare: client jars, ensure_libraries and the classpath
\* (the clearing of the natives directory at the head of ensure_libraries
\* is modelled with the natives directory above)
\* ------------------------------------------------------------------------
\* a library of a descriptor: its coordinate, its rule list, the path of
\* downloads.artifact, the natives map (one entry: os key and classifier)
\* and the path of the downloads.classifiers entry of that classifier
LibraryEntry(name, rules, artifact, natives, native_artifact) ==
    [name |-> name, rules |-> rules, artifact |-> artifact, natives |-> natives,
     native_artifact |-> native_artifact]

NativesFor(os, classifier) == [os |-> os, classifier |-> classifier]

\* the host the launcher runs on
HostOs == "linux"

\* arch_marker() on a 64-bit host
ArchMarker == "64"

\* library_allowed, with every library let through
LibraryAlwaysAllowed(library) == TRUE

\* library_allowed
library_allowed(library) ==
    IF library.rules # None THEN rules_allow(Get(library.rules), HostContext) ELSE TRUE

\* the file name artifact-version[-classifier].ext
MavenFile(parts, classifier, ext) ==
    parts[2] \o <<"-">> \o parts[3]
        \o (IF classifier = None THEN <<>> ELSE <<"-">> \o Get(classifier))
        \o <<".">> \o ext

MavenPath(parts, classifier) ==
    LET ext == IF Len(parts) >= 5 THEN parts[5] ELSE <<"jar">>
    IN  parts[1] \o <<"/">> \o parts[2] \o <<"/">> \o parts[3] \o <<"/">>
            \o MavenFile(parts, classifier, ext)

\* maven_path_from_name
maven_path_from_name(name) ==
    LET parts == Split(name, ":")
    IN  IF Len(parts) < 3 THEN None
        ELSE Some(MavenPath(parts, IF Len(parts) >= 4 THEN Some(parts[4]) ELSE None))

\* maven_path_from_name_with_classifier
maven_path_from_name_with_classifier(name, classifier) ==
    LET parts == Split(name, ":")
    IN  IF Len(parts) < 3 THEN None ELSE Some(MavenPath(parts, Some(classifier)))

\* a call download_with_sha1(url, path, expected_sha1)
Download(path, verified) == [path |-> path, verified |-> verified]

\* lines 611-624: the jar of the library, with or without a checksum
LibraryJar(library) ==
    IF library.artifact # None THEN Some(Download(Get(library.artifact), TRUE))
    ELSE IF maven_path_from_name(library.name) # None
    THEN Some(Download(Get(maven_path_from_name(library.name)), FALSE))
    ELSE None

\* classifier.replace("${arch}", arch_marker())
ReplaceArch(classifier) ==
    [i \in 1..Len(classifier) |-> IF classifier[i] = "${arch}" THEN ArchMarker ELSE classifier[i]]

\* lines 626-650: the native archive of the library for this host
NativeJar(library) ==
    IF library.natives = None \/ Get(library.natives).os # HostOs THEN None
    ELSE LET classifier == ReplaceArch(Get(library.natives).classifier)
         IN  IF library.native_artifact # None
             THEN Some(Download(Get(library.native_artifact), TRUE))
             ELSE IF maven_path_from_name_with_classifier(library.name, classifier) # None
             THEN Some(Download(Get(maven_path_from_name_with_classifier(library.name,
                                                                         classifier)), FALSE))
             ELSE None

Effect(calls, classpath, extracted, error) ==
    [calls |-> calls, classpath |-> classpath, extracted |-> extracted, error |-> error]

\* lines 606-651: one turn of the loop over version.libraries; `failing`
\* names the step of this turn that fails, if any
LibraryTurn(library, failing) ==
    IF ~library_allowed(library) THEN Effect({}, <<>>, {}, "none")
    ELSE LET jar    == LibraryJar(library)
             native == NativeJar(library)
             calls1 == IF jar = None THEN {} ELSE {Get(jar)}
             path1  == IF jar = None THEN <<>> ELSE <<Get(jar).path>>
         IN  IF jar # None /\ failing = "artifact"
             THEN Effect(calls1, <<>>, {}, "download failed")
             ELSE IF native = None THEN Effect(calls1, path1, {}, "none")
             ELSE IF failing = "native"
             THEN Effect(calls1 \cup {Get(native)}, path1, {}, "download failed")
             ELSE Effect(calls1 \cup {Get(native)}, path1, {Get(native).path},
                         IF failing = "extract" THEN "extract failed" ELSE "none")

\* a chain entry: its id, whether it has "downloads" and whether that has "client"
ChainEntry(id, downloads) == [id |-> id, downloads |-> downloads]

\* paths.minecraft_version_jar(id)
VersionJar(id) == <<"versions", "/", id, "/", id, ".jar">>

\* lines 50-52
IsForgeLoader(loader) == loader # None /\ Get(loader) \in {"forge", "neoforge"}

\* the libraries descriptors carry
LibraryKinds ==
    {LibraryEntry(Coord(<<"g", "a", "1">>), None, Some(<<"a.jar">>), None, None),
     LibraryEntry(Coord(<<"g", "b", "1">>), Some(<<>>), Some(<<"b.jar">>), None, None),
     LibraryEntry(Coord(<<"g", "w", "1">>), Some(AllowWindows), Some(<<"w.jar">>),
                  Some(NativesFor("linux", <<"natives-linux">>)), Some(<<"w-natives.jar">>)),
     LibraryEntry(Coord(<<"g", "n", "1">>), Some(AllowLinuxDisallowArm64), None,
                  Some(NativesFor("linux", <<"natives-linux-", "${arch}">>)), None),
     LibraryEntry(Coord(<<"g", "l", "1">>), None, Some(<<"l.jar">>),
                  Some(NativesFor("linux", <<"natives-linux">>)), Some(<<"l-natives.jar">>)),
     LibraryEntry(Coord(<<"g", "d", "1">>), Some(<<Rule(Some("disallow"), None, None)>>), None,
                  Some(NativesFor("linux", <<"natives-linux">>)), None),
     LibraryEntry(Coord(<<"x", "y">>), None, None, Some(NativesFor("windows", <<"natives-windows">>)), None)}

\* "downloads" absent, present without "client", present with it
DownloadsOptions == {None, Some([client |-> FALSE]), Some([client |-> TRUE])}

\* chains of one or two descriptors
Chains ==
    {<<ChainEntry("a", d)>> : d \in DownloadsOptions}
        \cup {<<ChainEntry("a", d), ChainEntry("b", e)>> : d \in DownloadsOptions, e \in DownloadsOptions}

LoaderTypes == {None, Some("fabric"), Some("forge"), Some("neoforge")}

LibrariesInit ==
    /\ mode = "libraries"
    /\ RtIdle
    /\ StIdle
    /\ ExIdle
    /\ DlIdle
    /\ MgIdle
    /\ RvIdle
    /\ RuIdle
    /\ NvIdle
    /\ PvIdle
    /\ LaIdle
    /\ LvIdle
    /\ SvIdle
    /\ BaIdle
    /\ lbLoader \in LoaderTypes
    /\ lbChain \in Chains
    /\ lbLibraries \in TuplesUpTo(LibraryKinds, MaxEntries)
    /\ lbPc = "clients"
    /\ lbIdx = 0
    /\ lbClientJars = <<>>
    /\ lbClasspath = <<>>
    /\ lbCalls = {}
    /\ lbExtracted = {}
    /\ lbResult = "none"

LbFail(error) ==
    /\ lbResult' = error
    /\ lbPc' = "done"
    /\ UNCHANGED lbIdx

\* one more entry of the loop is done; after the last one the next loop starts
LbAdvance(len, next) ==
    /\ lbResult' = lbResult
    /\ IF lbIdx + 1 = len THEN lbPc' = next /\ lbIdx' = 0
       ELSE lbPc' = lbPc /\ lbIdx' = lbIdx + 1

\* prepare, lines 54-64: one turn of the loop over resolved.chain
LbClientJar ==
    /\ mode = "libraries"
    /\ lbPc = "clients"
    /\ lbIdx < Len(lbChain)
    /\ LET entry == lbChain[lbIdx + 1]
           jar   == VersionJar(entry.id)
       IN  IF entry.downloads = None
           THEN /\ LbAdvance(Len(lbChain), "libraries")
                /\ UNCHANGED <<lbClientJars, lbCalls>>
           ELSE IF ~Get(entry.downloads).client
           THEN /\ LbFail("client download missing from version json")
                /\ UNCHANGED <<lbClientJars, lbCalls>>
           ELSE /\ lbCalls' = lbCalls \cup {Download(jar, TRUE)}
                /\ \E downloaded \in BOOLEAN :
                     IF downloaded
                     THEN /\ LbAdvance(Len(lbChain), "libraries")
                          /\ lbClientJars' = IF IsForgeLoader(lbLoader) THEN lbClientJars
                                             ELSE Append(lbClientJars, jar)
                     ELSE /\ LbFail("download failed")
                          /\ UNCHANGED lbClientJars
    /\ UNCHANGED <<mode, rtVars, stVars, exVars, dlVars, mgVars, rvVars, ruVars, nvVars, pvVars, laVars, lvVars, svVars, baVars, lbLoader, lbChain, lbLibraries, lbClasspath, lbExtracted>>

\* ensure_libraries, lines 606-651: one turn of the loop over version.libraries
LbLibrary ==
    /\ mode = "libraries"
    /\ lbPc = "libraries"
    /\ lbIdx < Len(lbLibraries)
    /\ \E failing \in {"none", "artifact", "native", "extract"} :
         LET turn == LibraryTurn(lbLibraries[lbIdx + 1], failing)
         IN  /\ lbCalls' = lbCalls \cup turn.calls
             /\ lbClasspath' = lbClasspath \o turn.classpath
             /\ lbExtracted' = lbExtracted \cup turn.extracted
             /\ IF turn.error = "none"
                THEN /\ lbResult' = lbResult
                     /\ lbIdx' = lbIdx + 1
                     /\ lbPc' = lbPc
                ELSE LbFail(turn.error)
    /\ UNCHANGED <<mode, rtVars, stVars, exVars, dlVars, mgVars, rvVars, ruVars, nvVars, pvVars, laVars, lvVars, svVars, baVars, lbLoader, lbChain, lbLibraries, lbClientJars>>

\* ensure_libraries, lines 653-664: the client jars go behind the libraries
LbFinish ==
    /\ mode = "libraries"
    /\ lbPc = "libraries"
    /\ lbIdx = Len(lbLibraries)
    /\ lbClasspath' = lbClasspath \o lbClientJars
    /\ lbResult' = "plan"
    /\ lbPc' = "done"
    /\ UNCHANGED <<mode, rtVars, stVars, exVars, dlVars, mgVars, rvVars, ruVars, nvVars, pvVars, laVars, lvVars, svVars, baVars, lbLoader, lbChain, lbLibraries, lbIdx, lbClientJars, lbCalls, lbExtracted>>

LibrariesStep == LbClientJar \/ LbLibrary \/ LbFinish

SpecLibraries == LibrariesInit /\ [][LibrariesStep]_vars

\* the libraries whose turn of the loop has run to its end
TurnsDone == IF lbResult = "plan" THEN Len(lbLibraries)
             ELSE IF lbPc = "libraries" THEN lbIdx ELSE 0

\* every path the library could be fetched to or put on the classpath under
PathsOf(library) ==
    (IF LibraryJar(library) = None THEN {} ELSE {Get(LibraryJar(library)).path})
        \cup (IF NativeJar(library) = None THEN {} ELSE {Get(NativeJar(library)).path})

\* C25: a library whose rule list does not allow it in the host's context is
\* never fetched, put on the classpath or extracted from; a library with no
\* rule list or an empty one whose turn has run has had its jar fetched and
\* put on the classpath and its native archive fetched and extracted.
DisallowedLibraryContributesNothing ==
    /\ \A i \in 1..Len(lbLibraries) :
         LET library == lbLibraries[i]
         IN  (library.rules # None /\ ~rules_allow(Get(library.rules), HostContext)) =>
                 /\ PathsOf(library) \cap {c.path : c \in lbCalls} = {}
                 /\ PathsOf(library) \cap Range(lbClasspath) = {}
                 /\ PathsOf(library) \cap lbExtracted = {}
    /\ \A i \in 1..TurnsDone :
         LET library == lbLibraries[i]
         IN  (library.rules = None \/ library.rules = Some(<<>>)) =>
                 /\ LibraryJar(library) # None =>
                        /\ Get(LibraryJar(library)) \in lbCalls
                        /\ Get(LibraryJar(library)).path \in Range(lbClasspath)
                 /\ NativeJar(library) # None =>
                        /\ Get(NativeJar(library)) \in lbCalls
                        /\ Get(NativeJar(library)).path \in lbExtracted

\* a plan was built from a library the rules disallow, which has a jar and
\* a native archive, and a library without rules that has both too
DisallowedLibraryContributesNothingWitness ==
    /\ lbResult = "plan"
    /\ Len(lbLibraries) = 2
    /\ lbLibraries[1].rules = Some(AllowWindows)
    /\ PathsOf(lbLibraries[1]) = {<<"w.jar">>, <<"w-natives.jar">>}
    /\ lbLibraries[2].rules = None
    /\ lbExtracted = {<<"l-natives.jar">>}
    /\ lbCalls = {Download(<<"l.jar">>, TRUE), Download(<<"l-natives.jar">>, TRUE)}
    /\ lbClasspath = <<<<"l.jar">>>>

\* the classpath entries of a library list: the jar of each allowed library
RECURSIVE LibraryPaths(_)
LibraryPaths(libraries) ==
    IF libraries = <<>> THEN <<>>
    ELSE (IF library_allowed(libraries[1]) /\ LibraryJar(libraries[1]) # None
          THEN <<Get(LibraryJar(libraries[1])).path>> ELSE <<>>)
            \o LibraryPaths(Tail(libraries))

\* the vanilla descriptor is the root of the chain
IsVanilla(i) == i = Len(lbChain)

DeclaresClient(entry) == entry.downloads # None /\ Get(entry.downloads).client

\* the client jars the classpath is to end with: one per chain entry that
\* declares a client download, the vanilla one left out under forge or neoforge
RECURSIVE ClientJarsFrom(_)
ClientJarsFrom(i) ==
    IF i > Len(lbChain) THEN <<>>
    ELSE (IF DeclaresClient(lbChain[i]) /\ ~(IsForgeLoader(lbLoader) /\ IsVanilla(i))
          THEN <<VersionJar(lbChain[i].id)>> ELSE <<>>) \o ClientJarsFrom(i + 1)

\* C26: the classpath of a plan is the paths of the allowed libraries in the
\* order of the merged list, followed by one client jar per chain entry that
\* declares a client download, in chain order; under forge or neoforge the
\* vanilla client jar is fetched with its checksum and is not on the classpath.
ClasspathLibrariesThenClientJars ==
    lbResult = "plan" =>
        /\ lbClasspath = LibraryPaths(lbLibraries) \o ClientJarsFrom(1)
        /\ (IsForgeLoader(lbLoader) /\ DeclaresClient(Last(lbChain))) =>
               /\ Download(VersionJar(Last(lbChain).id), TRUE) \in lbCalls
               /\ VersionJar(Last(lbChain).id) \notin Range(lbClasspath)

\* ------------------------------------------------------------------------
\* launch_profile_cmd: the stage notifications of a launch request
\* ------------------------------------------------------------------------
\* app.emit("launch-status", LaunchEvent { stage, .. }) by request r
Emit(r, stage) == stEvents' = Append(stEvents, [request |-> r, stage |-> stage])

\* a worker that takes any end of the game process for a success
AfterWaitAlwaysOk(status) == "exited"

\* lines 465-469: child.wait()? and the test of status.success()
AfterWait(status) == IF status = "success" THEN "exited" ELSE "failed"

WaitError(status) ==
    CASE status = "success" -> None
      [] status = "nonzero" -> Some("Minecraft exited with status")
      [] status = "unknown" -> Some("Failed to wait for process")

LaunchInit ==
    /\ mode = "launch"
    /\ RtIdle
    /\ ExIdle
    /\ DlIdle
    /\ MgIdle
    /\ RvIdle
    /\ RuIdle
    /\ NvIdle
    /\ PvIdle
    /\ LaIdle
    /\ LvIdle
    /\ SvIdle
    /\ BaIdle
    /\ LbIdle
    /\ stPc = [r \in Runs |-> "idle"]
    /\ stEvents = <<>>
    /\ stError = [r \in Runs |-> None]
    /\ stExit = [r \in Runs |-> None]

\* lines 408-429: the command emits queued and spawns the worker
StRequest(r) ==
    /\ mode = "launch"
    /\ stPc[r] = "idle"
    /\ Emit(r, "queued")
    /\ stPc' = [stPc EXCEPT ![r] = "spawned"]
    /\ UNCHANGED <<mode, rtVars, exVars, dlVars, mgVars, rvVars, ruVars, nvVars, pvVars, laVars, lvVars, svVars, baVars, lbVars, stError, stExit>>

\* lines 438-441
StPreparing(r) ==
    /\ mode = "launch"
    /\ stPc[r] = "spawned"
    /\ Emit(r, "preparing")
    /\ stPc' = [stPc EXCEPT ![r] = "prepare"]
    /\ UNCHANGED <<mode, rtVars, exVars, dlVars, mgVars, rvVars, ruVars, nvVars, pvVars, laVars, lvVars, svVars, baVars, lbVars, stError, stExit>>

\* lines 443-446: load_paths, load_profile, resolve_launch_account, prepare
StPrepare(r) ==
    /\ mode = "launch"
    /\ stPc[r] = "prepare"
    /\ \E failure \in {None, Some("Failed to load paths"), Some("Failed to load profile"),
                       Some("Failed to resolve account"), Some("Failed to prepare launch")} :
         /\ stError' = [stError EXCEPT ![r] = failure]
         /\ stPc' = [stPc EXCEPT ![r] = IF failure = None THEN "prepared" ELSE "failed"]
    /\ UNCHANGED <<mode, rtVars, exVars, dlVars, mgVars, rvVars, ruVars, nvVars, pvVars, laVars, lvVars, svVars, baVars, lbVars, stEvents, stExit>>

\* lines 448-451
StLaunching(r) ==
    /\ mode = "launch"
    /\ stPc[r] = "prepared"
    /\ Emit(r, "launching")
    /\ stPc' = [stPc EXCEPT ![r] = "spawn"]
    /\ UNCHANGED <<mode, rtVars, exVars, dlVars, mgVars, rvVars, ruVars, nvVars, pvVars, laVars, lvVars, svVars, baVars, lbVars, stError, stExit>>

\* lines 453-461: Command::new(java).spawn()
StSpawn(r) ==
    /\ mode = "launch"
    /\ stPc[r] = "spawn"
    /\ \E failure \in {None, Some("Failed to start Java")} :
         /\ stError' = [stError EXCEPT ![r] = failure]
         /\ stPc' = [stPc EXCEPT ![r] = IF failure = None THEN "child" ELSE "failed"]
    /\ UNCHANGED <<mode, rtVars, exVars, dlVars, mgVars, rvVars, ruVars, nvVars, pvVars, laVars, lvVars, svVars, baVars, lbVars, stEvents, stExit>>

\* lines 463-466
StRunning(r) ==
    /\ mode = "launch"
    /\ stPc[r] = "child"
    /\ Emit(r, "running")
    /\ stPc' = [stPc EXCEPT ![r] = "wait"]
    /\ UNCHANGED <<mode, rtVars, exVars, dlVars, mgVars, rvVars, ruVars, nvVars, pvVars, laVars, lvVars, svVars, baVars, lbVars, stError, stExit>>

\* lines 468-472: the game process ends, or waiting for it fails
StWait(r) ==
    /\ mode = "launch"
    /\ stPc[r] = "wait"
    /\ \E status \in {"success", "nonzero", "unknown"} :
         /\ stExit' = [stExit EXCEPT ![r] = Some(status)]
         /\ stPc' = [stPc EXCEPT ![r] = AfterWait(status)]
         /\ stError' = [stError EXCEPT ![r] = IF AfterWait(status) = "failed"
                                               THEN WaitError(status) ELSE None]
    /\ UNCHANGED <<mode, rtVars, exVars, dlVars, mgVars, rvVars, ruVars, nvVars, pvVars, laVars, lvVars, svVars, baVars, lbVars, stEvents>>

\* lines 474-479: done is emitted and run_launch returns Ok
StDone(r) ==
    /\ mode = "launch"
    /\ stPc[r] = "exited"
    /\ Emit(r, "done")
    /\ stPc' = [stPc EXCEPT ![r] = "finished"]
    /\ UNCHANGED <<mode, rtVars, exVars, dlVars, mgVars, rvVars, ruVars, nvVars, pvVars, laVars, lvVars, svVars, baVars, lbVars, stError, stExit>>

\* lines 419-426: the closure emits error for the Err run_launch returned
StError(r) ==
    /\ mode = "launch"
    /\ stPc[r] = "failed"
    /\ Emit(r, "error")
    /\ stPc' = [stPc EXCEPT ![r] = "finished"]
    /\ UNCHANGED <<mode, rtVars, exVars, dlVars, mgVars, rvVars, ruVars, nvVars, pvVars, laVars, lvVars, svVars, baVars, lbVars, stError, stExit>>

LaunchStep ==
    \E r \in Runs :
        \/ StRequest(r)
        \/ StPreparing(r)
        \/ StPrepare(r)
        \/ StLaunching(r)
        \/ StSpawn(r)
        \/ StRunning(r)
        \/ StWait(r)
        \/ StDone(r)
        \/ StError(r)

SpecLaunch == LaunchInit /\ [][LaunchStep]_vars

\* the stages emitted for request r, in the order of emission
StagesOf(r) ==
    LET own == SelectSeq(stEvents, LAMBDA e : e.request = r)
    IN  [i \in 1..Len(own) |-> own[i].stage]

Progress == <<"queued", "preparing", "launching", "running">>

Terminal == {"done", "error"}

\* C22: the stages emitted for one launch request are a prefix of queued,
\* preparing, launching, running, followed by at most one of done and error,
\* and by exactly one once the worker has finished; done comes only after
\* running and only when the game process exited successfully.
StagesInOrderOneTerminal ==
    \A r \in Runs :
        LET stages == StagesOf(r)
            n      == Cardinality({i \in 1..Len(stages) : stages[i] \notin Terminal})
        IN  /\ n <= Len(Progress)
            /\ SubSeq(stages, 1, n) = SubSeq(Progress, 1, n)
            /\ Len(stages) <= n + 1
            /\ stPc[r] = "finished" => (Len(stages) = n + 1 /\ stages[n + 1] \in Terminal)
            /\ stPc[r] # "finished" => Len(stages) = n
            /\ (Len(stages) = n + 1 /\ stages[n + 1] = "done") =>
                   (n = Len(Progress) /\ stExit[r] = Some("success"))

\* two requests whose events interleave: one ends with done, the other, whose
\* game exited with a failure status, with error after running
StagesInOrderOneTerminalWitness ==
    /\ stPc = [r \in Runs |-> "finished"]
    /\ StagesOf("r1") = Progress \o <<"done">>
    /\ StagesOf("r2") = Progress \o <<"error">>
    /\ stExit["r2"] = Some("nonzero")
    /\ stEvents[2].request = "r2"
    /\ stEvents[3].request = "r1"

\* ------------------------------------------------------------------------
\* A pipeline run that fails and the retry of the whole pipeline
\* ------------------------------------------------------------------------
\* a checksummed artifact of the pipeline: where it goes and its sha1
Artifact(stem, sha1) == [path |-> [stem |-> stem, ext |-> "jar"], sha1 |-> sha1]

\* the downloads of one run in the order prepare makes them: the client jar
\* (ensure_client_jar), the asset index (ensure_assets), then the libraries
\* (ensure_libraries), one of which the descriptor lists twice
Pipeline ==
    <<Artifact("client", <<"a", "b">>), Artifact("index", <<"C", "d">>),
      Artifact("lib", <<"a", "b">>), Artifact("lib", <<"a", "b">>)>>

RtTargets == {Pipeline[i].path : i \in 1..Len(Pipeline)}

RtPaths == RtTargets \cup {TmpPath(p) : p \in RtTargets}

\* the place in the pipeline of the artifact that goes to a path
ArtifactAt(path) == (CHOOSE i \in 1..Len(Pipeline) : Pipeline[i].path = path)

RetryInit ==
    /\ mode = "retry"
    /\ ExIdle
    /\ DlIdle
    /\ MgIdle
    /\ RvIdle
    /\ RuIdle
    /\ NvIdle
    /\ PvIdle
    /\ LaIdle
    /\ LvIdle
    /\ SvIdle
    /\ BaIdle
    /\ LbIdle
    /\ StIdle
    /\ rtRemote \in [RtTargets -> {None, Some("c1"), Some("c2")}]
    /\ \E files \in [RtTargets -> {NoFile, "c1", "c2"}] :
         rtDisk = [p \in RtPaths |-> IF p \in RtTargets THEN files[p] ELSE NoFile]
    /\ rtRun = 1
    /\ rtIdx = 0
    /\ rtVerified = {}
    /\ rtFetches = {}
    /\ rtResult = [n \in 1..2 |-> "none"]

RtRunning == rtRun \in 1..2 /\ rtResult[rtRun] = "none"

\* the step succeeded: the file at the path has the expected checksum
RtPassed(path) ==
    /\ rtIdx' = rtIdx + 1
    /\ rtVerified' = IF rtRun = 1 THEN rtVerified \cup {path} ELSE rtVerified
    /\ UNCHANGED rtResult

\* the step returned an error and `?` ends the run
RtFailed ==
    /\ rtResult' = [rtResult EXCEPT ![rtRun] = "failed"]
    /\ UNCHANGED <<rtIdx, rtVerified>>

\* download_with_sha1(url, path, Some(sha1)) for the next artifact, lines
\* 825-865, with nothing else touching the caches meanwhile
RtDownload ==
    /\ mode = "retry"
    /\ RtRunning
    /\ rtIdx < Len(Pipeline)
    /\ LET path     == Pipeline[rtIdx + 1].path
           expected == Some(Pipeline[rtIdx + 1].sha1)
           tmp      == TmpPath(path)
       IN  IF CacheHit(rtDisk[path], expected)
           THEN /\ RtPassed(path)
                /\ UNCHANGED <<rtDisk, rtFetches>>
           ELSE /\ rtFetches' = rtFetches \cup {[run |-> rtRun, path |-> path]}
                /\ IF rtRemote[path] = None
                   THEN /\ RtFailed
                        /\ UNCHANGED rtDisk
                   ELSE IF ~DownloadVerified(Get(rtRemote[path]), expected)
                   THEN /\ RtFailed
                        /\ rtDisk' = [rtDisk EXCEPT ![tmp] = Get(rtRemote[path])]
                   ELSE /\ RtPassed(path)
                        /\ rtDisk' = [rtDisk EXCEPT ![tmp] = NoFile,
                                                    ![path] = Get(rtRemote[path])]
    /\ UNCHANGED <<mode, exVars, dlVars, mgVars, rvVars, ruVars, nvVars, pvVars, laVars, lvVars, svVars, baVars, lbVars, stVars, rtRemote, rtRun>>

\* a step between the downloads fails: an unreadable asset index, a native
\* archive that does not extract, a descriptor without mainClass
RtOtherFailure ==
    /\ mode = "retry"
    /\ RtRunning
    /\ RtFailed
    /\ UNCHANGED <<mode, exVars, dlVars, mgVars, rvVars, ruVars, nvVars, pvVars, laVars, lvVars, svVars, baVars, lbVars, stVars, rtRemote, rtDisk, rtRun, rtFetches>>

\* prepare returns the plan
RtFinish ==
    /\ mode = "retry"
    /\ RtRunning
    /\ rtIdx = Len(Pipeline)
    /\ rtResult' = [rtResult EXCEPT ![rtRun] = "ok"]
    /\ UNCHANGED <<mode, exVars, dlVars, mgVars, rvVars, ruVars, nvVars, pvVars, laVars, lvVars, svVars, baVars, lbVars, stVars, rtRemote, rtDisk, rtRun, rtIdx, rtVerified, rtFetches>>

\* the user launches again after the failure: prepare starts from the top
RtRetry ==
    /\ mode = "retry"
    /\ rtRun = 1
    /\ rtResult[1] = "failed"
    /\ rtRun' = 2
    /\ rtIdx' = 0
    /\ UNCHANGED <<mode, exVars, dlVars, mgVars, rvVars, ruVars, nvVars, pvVars, laVars, lvVars, svVars, baVars, lbVars, stVars, rtRemote, rtDisk, rtVerified, rtFetches, rtResult>>

RetryStep == RtDownload \/ RtOtherFailure \/ RtFinish \/ RtRetry

SpecRetry == RetryInit /\ [][RetryStep]_vars

\* C21: once the first run has failed, every artifact it had verified at its
\* final path is still there with the expected checksum, whatever the failing
\* step and the retry do, and the retry makes no network request for any of
\* those artifacts.
RetryReusesVerified ==
    rtResult[1] = "failed" =>
        \A path \in rtVerified :
            /\ rtDisk[path] # NoFile
            /\ EqIgnoreAsciiCase(Sha1Hex(rtDisk[path]), Pipeline[ArtifactAt(path)].sha1)
            /\ [run |-> 2, path |-> path] \notin rtFetches

\* the first run fetched and installed the client jar and the asset index and
\* failed at the library, whose download does not match; the retry has got
\* through both without a request and has failed at the library again
RetryReusesVerifiedWitness ==
    /\ rtResult = [n \in 1..2 |-> "failed"]
    /\ rtIdx = 2
    /\ rtVerified = {Pipeline[1].path, Pipeline[2].path}
    /\ {f.path : f \in {g \in rtFetches : g.run = 1}} = {Pipeline[i].path : i \in 1..3}
    /\ {f.path : f \in {g \in rtFetches : g.run = 2}} = {Pipeline[3].path}
    /\ rtDisk[TmpPath(Pipeline[3].path)] # NoFile
====
